---- MODULE Spec2Model ----
(***************************************************************************)
(* A model of the Chimera synchronisation service, its path cache, its     *)
(* graph index client and the bearer-authenticated protocol server.        *)
(*                                                                         *)
(* The module holds several specifications over one set of variables:      *)
(*   Spec        the sync cycle of SyncService (sync_service.py) together  *)
(*               with the scanner, the content source and the clock;       *)
(*   SpecPolicy  the full-vs-incremental decision _should_do_full_sync     *)
(*               applied to bounded inputs;                                *)
(*   SpecAuth    the intent_search tool behind _validate_auth;             *)
(*   SpecCache   _write_cache_file run by several generators, and the      *)
(*               reader of the cache file;                                 *)
(*   SpecPaths   _build_paths applied to bounded forests of pages;         *)
(*   SpecStore   upsert_page and create_relationships on the graph;        *)
(*   SpecUpd     update_graph: batches of concurrent per-page tasks;       *)
(*   SpecRate    _rate_limit_wait called by concurrent coroutines;         *)
(*   SpecTrunc   get_path_contents_async and the file content threshold;   *)
(*   SpecSel     search_by_intent: threshold, order and cut of the paths;  *)
(*   SpecSch     SyncScheduler: the polling loop, pause and resume;        *)
(*   SpecCt      NotionClient.get_page_content over the extractor;         *)
(*   SpecCli     the modes of run_chimera.py down to the exit status;      *)
(*   SpecEp      add_graphiti_episodes_bulk.                               *)
(*   SpecWx      the WeChat folder sync and its ledger of processed files. *)
(*   SpecPathsAny  _build_paths on any map, forest or not.                 *)
(*   SpecCp      _build_confidence_paths and the core page of each path.   *)
(* A specification leaves the variables of the other parts unchanged.      *)
(***************************************************************************)
EXTENDS Integers, Sequences, FiniteSets, TLC

(***************************************************************************)
(* Bounds of the model.                                                    *)
(***************************************************************************)
MaxTicks == 1
MaxPolicyNow == 4400
MaxPolicyPages == 1
MaxHeaderPieces == 4
MaxFoundPaths == 2
MaxGens == 3
NumChunks == 2
MaxNodes == 4

\* The walk of _build_paths is followed for at most this many turns of its
\* loop; a walk on a forest of MaxNodes pages ends before that.
MaxWalk == 6
MaxUpdPages == 3

\* self._batch_size is 10 in the source; the model cuts the list into
\* smaller batches, so that a short list still spans several of them.
BatchSize == 2

\* The clock of the rate limiter runs up to MaxClock ticks; min_interval
\* (1.0 / self.rate_limit seconds) is MinInterval ticks.
MaxClock == 6
MinInterval == 2
MaxPathPages == 2
MaxEvals == 3
MaxResults == 3
MaxSchedClock == 4
MaxSyncCount == 2
MaxImmediate == 1
MaxCycles == 1
MaxEpisodes == 13
MaxCands == 2
MaxItems == 2
MaxEntities == 2
MaxRuns == 2

(***************************************************************************)
(* Common values.                                                          *)
(***************************************************************************)
\* Python's None for an absent timestamp; every real time is >= 0 (minutes).
None == 0 - 1

Pages == {"p1", "p2"}

\* Minutes in an hour and in a day; the clock of the model counts minutes.
MinutesPerHour == 60
MinutesPerDay == 24 * 60

\* The clock starts at 20:00 UTC, which is 04:00 in UTC+8.
StartNow == 20 * 60

\* The amounts by which the clock can advance in one step: twenty minutes,
\* one day, three days.
TickSteps == {20, MinutesPerDay, 3 * MinutesPerDay}

VARIABLES
    \* ---- content source and clock
    now,          \* wall clock, minutes since the epoch (UTC)
    ticks,        \* number of clock advances so far (bounded)
    edited,       \* edited[p]: last_edited_time of page p in Notion, None if absent
    \* ---- graph database
    graph,        \* set of NotionPage ids in Neo4j
    lastSync,     \* SyncMetadata.last_sync_time, None if not recorded
    lastFull,     \* SyncMetadata.last_full_sync_time, None if not recorded
    \* ---- the SyncService process
    processed,    \* NotionScanner._processed_pages
    pc,           \* position of run_sync_cycle
    isFull,       \* should_do_full_sync of the running cycle
    result,       \* "none" | "running" | "ok" | "fail": what the last cycle returned
    \* ---- what the running (or last) cycle observed and did
    healthN,      \* outcome of notion_client.health_check
    healthG,      \* outcome of graph_client.health_check
    readSync,     \* last_sync_time handed to the scan (None: unfiltered)
    matched,      \* pages of the source that met the scan's time filter
    extracted,    \* pages scan_for_changes got metadata for
    handed,       \* pages handed to GraphUpdater.update_graph
    upFailed,     \* handed pages whose upsert failed on all attempts
    did,          \* effects of the cycle: subset of Effects
    dbOk,         \* timestamp writes of the cycle that the database accepted
    syncAtStart,  \* lastSync when the cycle started
    fullAtStart,  \* lastFull when the cycle started
    graphAtStart, \* graph when the cycle started
    \* ---- _should_do_full_sync on bounded inputs
    polIn,        \* the inputs
    polOut,       \* "none" before the call, then "true" or "false"
    \* ---- the protocol server's intent_search tool (one request)
    authCfg,      \* settings: enable_auth, and chimera_api_key if one is set
    authHdr,      \* the request's Authorization header, if present
    authPc,       \* "recv" | "replied"
    authRan,      \* whether search_user_intent was invoked
    authResp,     \* the ChimeraResult: success, number of paths
    \* ---- the path cache file and the processes that write and read it
    fsTmp,        \* inode at llm_cache/chimera_cache.tmp, 0 if no such file
    fsCache,      \* inode at llm_cache/chimera_cache.json, 0 if no such file
    fsData,       \* fsData[i]: the content of inode i, a sequence of cells
    fsNext,       \* the next unused inode number
    cw,           \* cw[w]: writer w's position, open file, offset, generation
    genCount,     \* cache generations started so far (bounded)
    cacheSeen,    \* what the last reader of the cache file got
    \* ---- _build_paths on a pages map
    pmKeys,       \* the page ids that are keys of pages_map
    pmParent,     \* pmParent[p]: parent_id of page p, 0 for None
    pmTitle,      \* pmTitle[p]: title of page p
    bpPc,         \* "start" | "walk" | "done"
    bpLeaves,     \* the leaf ids still to be walked, the current one first
    bpCur,        \* current_id
    bpIds,        \* path_ids
    bpTitles,     \* path_titles
    bpPaths,      \* paths
    \* ---- the NotionPage nodes and CHILD_OF edges of the graph store
    gNodes,       \* the notionId of every NotionPage node
    gParentId,    \* gParentId[p]: the parentId property of node p
    gChildOf,     \* the CHILD_OF edges, <<source, target>>
    gLast,        \* gLast[p]: the last call made for page p and its parent_id
    gRet,         \* what the last call returned
    \* ---- GraphUpdater.update_graph
    upPages,      \* pages: the list handed to update_graph (page ids)
    upMeta,       \* upMeta[p]: the parent_id in the metadata of page p
    upPc,         \* "next" | "gather" | "done"
    upI,          \* i: where the next batch starts (0-based)
    upTask,       \* upTask[p]: the coroutine _process_single_page(p)
    upReport,     \* report
    \* ---- NotionExtractor._rate_limit_wait
    rlNow,        \* asyncio.get_event_loop().time(), in ticks
    rlLast,       \* self._last_request_time
    rlCo,         \* rlCo[c]: coroutine c, inside _rate_limit_wait or not
    rlPrev,       \* when the previous request was released, None before it
    rlGap,        \* the time between the last two releases, None before them
    \* ---- get_path_contents_async and the file extractor's threshold
    feMax,        \* file_extractor.max_content_length
    feBefore,     \* its value before the first call started
    gpCall,       \* gpCall[c]: the call c of get_path_contents_async
    \* ---- search_by_intent and _build_confidence_paths
    selKwargs,    \* **kwargs of search_by_intent
    selEvals,     \* evaluation.evaluations: the confidence_score of each item
    selPc,        \* "call" | "done"
    selKept,      \* the items (positions in selEvals) of confidence_paths
    selPaths,     \* the number of paths in the tool's response
    \* ---- SyncScheduler
    schNow,       \* datetime.now(), in ticks of one polling period (10 s)
    schRunning,   \* self._running
    schInterval,  \* self.sync_interval_minutes, in ticks
    schNext,      \* self._next_sync_time, None when cleared
    schLast,      \* self._last_sync_time, None before the first sync
    schCount,     \* self._sync_count
    schLoop,      \* the task running _scheduler_loop: where it is
    schPaused,    \* pause() has returned and resume() was not called since
    schImm,       \* calls of trigger_immediate_sync() awaiting the callback
    \* ---- NotionClient.get_page_content
    ctReq,        \* the call: page, include_files, and what the API will answer
    ctPc,         \* where the call is
    ctContent,    \* what the extractor returned (None, or a content kind)
    ctResult,     \* the string get_page_content returned, by kind
    \* ---- run_chimera.py
    cliMode,      \* the mode the arguments select
    cliPc,        \* the call the process is about to make
    cliLog,       \* the calls made so far, each with how it ended
    cliAfter,     \* what leaves the try block once its finally has run
    cliExit,      \* the exit status, None while the process runs
    \* ---- WeChatGraphitiClient.add_graphiti_episodes_bulk
    epLen,        \* len(episodes)
    epI,          \* how many episodes the loop has taken
    epSucc,       \* successful_episodes
    epErrors,     \* errors: the position (i+1) named in each message
    epAdds,       \* what add_episode did at each call made, in call order
    epPc,         \* "loop", "return" or "returned"
    epResult,     \* the EpisodeGenerationResult returned
    \* ---- WeChatSyncScript and WeChatDataProcessor
    wxFiles,      \* the *.json files of the folder: what each one holds
    wxLedger,     \* the lines of processed_wechat_files.txt
    wxForce,      \* the run's force flag
    wxList,       \* json_files of the run, in processing order
    wxI,          \* how many files of the list were taken
    wxSeen,       \* processor.global_episode_ids
    wxEpisodes,   \* all_episodes of the run
    wxProcessed,  \* successfully_processed_files of the run
    wxPc,         \* "idle", "process" or "store"
    wxRuns,       \* the number of runs started
    \* ---- IntentSearchEngine._build_confidence_paths
    cpCands,      \* len(candidate_paths)
    cpEvals,      \* high_confidence_evals, in the order they are taken
    cpI,          \* how many of them were taken
    cpPaths,      \* confidence_paths
    cpPc          \* "loop" or "done"

syncVars == <<now, ticks, edited, graph, lastSync, lastFull, processed, pc,
              isFull, result, healthN, healthG, readSync, matched, extracted,
              handed, upFailed, did, dbOk, syncAtStart, fullAtStart,
              graphAtStart>>
polVars == <<polIn, polOut>>
authVars == <<authCfg, authHdr, authPc, authRan, authResp>>
cacheVars == <<fsTmp, fsCache, fsData, fsNext, cw, genCount, cacheSeen>>
pathVars == <<pmKeys, pmParent, pmTitle, bpPc, bpLeaves, bpCur, bpIds,
              bpTitles, bpPaths>>
storeVars == <<gNodes, gParentId, gChildOf, gLast, gRet>>
updVars == <<upPages, upMeta, upPc, upI, upTask, upReport>>
rateVars == <<rlNow, rlLast, rlCo, rlPrev, rlGap>>
truncVars == <<feMax, feBefore, gpCall>>
selVars == <<selKwargs, selEvals, selPc, selKept, selPaths>>
schVars == <<schNow, schRunning, schInterval, schNext, schLast, schCount,
             schLoop, schPaused, schImm>>
ctVars == <<ctReq, ctPc, ctContent, ctResult>>
cliVars == <<cliMode, cliPc, cliLog, cliAfter, cliExit>>
epVars == <<epLen, epI, epSucc, epErrors, epAdds, epPc, epResult>>

wxVars == <<wxFiles, wxLedger, wxForce, wxList, wxI, wxSeen, wxEpisodes,
            wxProcessed, wxPc, wxRuns>>

cpVars == <<cpCands, cpEvals, cpI, cpPaths, cpPc>>

vars == <<syncVars, polVars, authVars, cacheVars, pathVars, storeVars,
          updVars, rateVars, truncVars, selVars, schVars, ctVars,
          cliVars, epVars, wxVars, cpVars>>

\* What each part leaves alone.
notSync == <<polVars, authVars, cacheVars, pathVars, storeVars, updVars,
    rateVars, truncVars,
    selVars, schVars, ctVars, cliVars, epVars,
    wxVars,
    cpVars>>
notPolicy == <<syncVars, authVars, cacheVars, pathVars, storeVars, updVars,
    rateVars, truncVars,
    selVars, schVars, ctVars, cliVars, epVars,
    wxVars,
    cpVars>>
notAuth == <<syncVars, polVars, cacheVars, pathVars, storeVars, updVars,
    rateVars, truncVars,
    selVars, schVars, ctVars, cliVars, epVars,
    wxVars,
    cpVars>>
notCache == <<syncVars, polVars, authVars, pathVars, storeVars, updVars,
    rateVars, truncVars,
    selVars, schVars, ctVars, cliVars, epVars,
    wxVars,
    cpVars>>
notPaths == <<syncVars, polVars, authVars, cacheVars, storeVars, updVars,
    rateVars, truncVars,
    selVars, schVars, ctVars, cliVars, epVars,
    wxVars,
    cpVars>>
notStore == <<syncVars, polVars, authVars, cacheVars, pathVars, updVars,
    rateVars, truncVars,
    selVars, schVars, ctVars, cliVars, epVars,
    wxVars,
    cpVars>>
notUpd == <<syncVars, polVars, authVars, cacheVars, pathVars, rateVars, truncVars,
    selVars, schVars, ctVars, cliVars, epVars,
    wxVars,
    cpVars>>
notRate == <<syncVars, polVars, authVars, cacheVars, pathVars, storeVars,
            updVars, truncVars,
    selVars, schVars, ctVars, cliVars, epVars,
    wxVars,
    cpVars>>
notTrunc == <<syncVars, polVars, authVars, cacheVars, pathVars, storeVars,
             updVars, rateVars,
    selVars, schVars, ctVars, cliVars, epVars,
    wxVars,
    cpVars>>
notSel == <<syncVars, polVars, authVars, cacheVars, pathVars, storeVars,
           updVars, rateVars, truncVars, schVars, ctVars, cliVars, epVars,
    wxVars,
    cpVars>>
notWx == <<syncVars, polVars, authVars, cacheVars, pathVars, storeVars,
          updVars, rateVars, truncVars, selVars, schVars, ctVars,
          cliVars, epVars,
    cpVars>>
notCp == <<syncVars, polVars, authVars, cacheVars, pathVars, storeVars,
          updVars, rateVars, truncVars, selVars, schVars, ctVars,
          cliVars, epVars, wxVars>>
notEp == <<syncVars, polVars, authVars, cacheVars, pathVars, storeVars,
          updVars, rateVars, truncVars, selVars, schVars, ctVars, cliVars,
    wxVars,
    cpVars>>
notCli == <<syncVars, polVars, authVars, cacheVars, pathVars, storeVars,
           updVars, rateVars, truncVars, selVars, schVars, ctVars, epVars,
    wxVars,
    cpVars>>
notCt == <<syncVars, polVars, authVars, cacheVars, pathVars, storeVars,
          updVars, rateVars, truncVars, selVars, schVars, cliVars, epVars,
    wxVars,
    cpVars>>
notSch == <<syncVars, polVars, authVars, cacheVars, pathVars, storeVars,
           updVars, rateVars, truncVars, selVars, ctVars, cliVars, epVars,
    wxVars,
    cpVars>>

Effects == {"policy", "delete", "scan", "write", "stamp"}

(***************************************************************************)
(* _should_do_full_sync and the reads it makes.                            *)
(***************************************************************************)

\* SyncService._is_first_run: the count query; a failing query is logged and
\* answered as "first run".
IsFirstRun(countFails, pageCount) ==
    IF countFails THEN TRUE ELSE pageCount = 0

\* SyncService._get_last_full_sync_time: None when the read fails, when there
\* is no SyncMetadata node, or when the property is null.
GetLastFullSyncTime(readFails, recorded) ==
    IF readFails THEN None ELSE recorded

\* (now - last).total_seconds() / (24 * 3600) >= days
DaysSinceAtLeast(nowMin, lastMin, days) ==
    (nowMin - lastMin) * 60 >= days * (24 * 3600)

\* now.astimezone(timezone(timedelta(hours=8))).hour and .minute
BeijingHour(nowMin) == ((nowMin + 8 * MinutesPerHour) \div MinutesPerHour) % 24
BeijingMinute(nowMin) == (nowMin + 8 * MinutesPerHour) % MinutesPerHour

ShouldDoFullSyncOrNotAnd(countFails, pageCount, readFails, recorded, nowMin) ==
    IF IsFirstRun(countFails, pageCount) THEN TRUE
    ELSE LET last == GetLastFullSyncTime(readFails, recorded) IN
         IF last = None THEN TRUE
         ELSE IF DaysSinceAtLeast(nowMin, last, 3) THEN TRUE
         ELSE IF DaysSinceAtLeast(nowMin, last, 1)
                 \/ (BeijingHour(nowMin) = 4 /\ BeijingMinute(nowMin) < 30)
              THEN TRUE
              ELSE FALSE

ShouldDoFullSync(countFails, pageCount, readFails, recorded, nowMin) ==
    IF IsFirstRun(countFails, pageCount) THEN TRUE
    ELSE LET last == GetLastFullSyncTime(readFails, recorded) IN
         IF last = None THEN TRUE
         ELSE IF DaysSinceAtLeast(nowMin, last, 3) THEN TRUE
         ELSE IF DaysSinceAtLeast(nowMin, last, 1)
                 /\ BeijingHour(nowMin) = 4 /\ BeijingMinute(nowMin) < 30
              THEN TRUE
              ELSE FALSE

(***************************************************************************)
(* The content source and the scanner.                                     *)
(***************************************************************************)

\* The pages the search returns that pass the local time filter of
\* get_all_pages_metadata: all pages when the filter is None, else those
\* edited strictly after it.
PassFilter(filter) ==
    {p \in Pages : edited[p] # None /\ (filter = None \/ edited[p] > filter)}

\* NotionExtractor.get_all_pages_metadata: a page whose metadata extraction
\* fails is logged and skipped.
GetAllPagesMetadata(filter, extractOk) == PassFilter(filter) \cap extractOk

\* The pages scan_for_changes returns out of the extracted ones: those it
\* has not returned before in this process.
NewPages(pages, seen) == pages \ seen

(***************************************************************************)
(* SyncService._health_check                                               *)
(***************************************************************************)
HealthOutcomes == {"ok", "false", "raise"}

HealthCheckEither(nh, gh) ==
    IF nh = "raise" \/ gh = "raise" THEN FALSE
    ELSE nh = "ok" \/ gh = "ok"

HealthCheck(nh, gh) ==
    IF nh = "raise" \/ gh = "raise" THEN FALSE
    ELSE nh = "ok" /\ gh = "ok"

(***************************************************************************)
(* Initial state of the sync part: an empty graph, a fresh process, a      *)
(* workspace whose pages were all edited at the start time or are absent.  *)
(***************************************************************************)
InitSync ==
    /\ now = StartNow
    /\ ticks = 0
    /\ edited \in [Pages -> {None, StartNow}]
    /\ graph = {}
    /\ lastSync = None
    /\ lastFull = None
    /\ processed = {}
    /\ pc = "idle"
    /\ isFull = FALSE
    /\ result = "none"
    /\ healthN = "none"
    /\ healthG = "none"
    /\ readSync = None
    /\ matched = {}
    /\ extracted = {}
    /\ handed = {}
    /\ upFailed = {}
    /\ did = {}
    /\ dbOk = {}
    /\ syncAtStart = None
    /\ fullAtStart = None
    /\ graphAtStart = {}

InitPolicyIdle ==
    /\ polIn = <<>>
    /\ polOut = "none"

(***************************************************************************)
(* Environment: the clock and the user's edits in Notion.                  *)
(***************************************************************************)
Tick ==
    /\ ticks < MaxTicks
    /\ \E d \in TickSteps : now' = now + d
    /\ ticks' = ticks + 1
    /\ UNCHANGED <<edited, graph, lastSync, lastFull, processed, pc, isFull,
                   result, healthN, healthG, readSync, matched, extracted,
                   handed, upFailed, did, dbOk, syncAtStart, fullAtStart,
                   graphAtStart>>
    /\ UNCHANGED notSync

\* A page is created or edited: its last_edited_time becomes the current time.
EditPage ==
    /\ \E p \in Pages :
          /\ edited[p] # now
          /\ edited' = [edited EXCEPT ![p] = now]
    /\ UNCHANGED <<now, ticks, graph, lastSync, lastFull, processed, pc, isFull,
                   result, healthN, healthG, readSync, matched, extracted,
                   handed, upFailed, did, dbOk, syncAtStart, fullAtStart,
                   graphAtStart>>
    /\ UNCHANGED notSync

\* The process ends and a new one starts: a new SyncService, a new scanner.
Restart ==
    /\ pc = "idle"
    /\ processed # {}
    /\ processed' = {}
    /\ UNCHANGED <<now, ticks, edited, graph, lastSync, lastFull, pc, isFull,
                   result, healthN, healthG, readSync, matched, extracted,
                   handed, upFailed, did, dbOk, syncAtStart, fullAtStart,
                   graphAtStart>>
    /\ UNCHANGED notSync

(***************************************************************************)
(* SyncService.run_sync_cycle, one action per awaited stage.               *)
(***************************************************************************)
StartCycle ==
    /\ pc = "idle"
    /\ pc' = "health"
    /\ result' = "running"
    /\ syncAtStart' = lastSync
    /\ fullAtStart' = lastFull
    /\ graphAtStart' = graph
    /\ UNCHANGED <<now, ticks, edited, graph, lastSync, lastFull, processed,
                   isFull, healthN, healthG, readSync, matched, extracted,
                   handed, upFailed, did, dbOk>>
    /\ UNCHANGED notSync

\* run_sync_cycle has returned `result`; its locals are gone.
ReturnCycle ==
    /\ pc = "done"
    /\ pc' = "idle"
    /\ result' = "none"
    /\ isFull' = FALSE
    /\ healthN' = "none"
    /\ healthG' = "none"
    /\ readSync' = None
    /\ matched' = {}
    /\ extracted' = {}
    /\ handed' = {}
    /\ upFailed' = {}
    /\ did' = {}
    /\ dbOk' = {}
    /\ syncAtStart' = None
    /\ fullAtStart' = None
    /\ graphAtStart' = {}
    /\ UNCHANGED <<now, ticks, edited, graph, lastSync, lastFull, processed>>
    /\ UNCHANGED notSync

\* if not await self._health_check(): return False
CheckHealth ==
    /\ pc = "health"
    /\ \E nh \in HealthOutcomes, gh \in HealthOutcomes :
          /\ (nh = "raise" => gh = "ok")
          /\ healthN' = nh
          /\ healthG' = IF nh = "raise" THEN "notrun" ELSE gh
          /\ IF HealthCheck(nh, gh)
             THEN pc' = "policy" /\ result' = result
             ELSE pc' = "done" /\ result' = "fail"
    /\ UNCHANGED <<now, ticks, edited, graph, lastSync, lastFull, processed,
                   isFull, readSync, matched, extracted, handed, upFailed, did,
                   dbOk, syncAtStart, fullAtStart, graphAtStart>>
    /\ UNCHANGED notSync

\* should_do_full_sync = await self._should_do_full_sync()
DecidePolicy ==
    /\ pc = "policy"
    /\ \E countFails \in BOOLEAN, readFails \in BOOLEAN :
          isFull' = ShouldDoFullSync(countFails, Cardinality(graph),
                                     readFails, lastFull, now)
    /\ did' = did \cup {"policy"}
    /\ pc' = IF isFull' THEN "wipe" ELSE "scan"
    /\ UNCHANGED <<now, ticks, edited, graph, lastSync, lastFull, processed,
                   result, healthN, healthG, readSync, matched, extracted,
                   handed, upFailed, dbOk, syncAtStart, fullAtStart,
                   graphAtStart>>
    /\ UNCHANGED notSync

\* _run_full_sync, step 1: the two delete queries, each its own transaction.
\* A query that raises ends the cycle with False.
WipeGraph ==
    /\ pc = "wipe"
    /\ \E o \in {"ok", "fail1", "fail2"} :
          /\ graph' = IF o = "fail1" THEN graph ELSE {}
          /\ lastSync' = IF o = "ok" THEN None ELSE lastSync
          /\ lastFull' = IF o = "ok" THEN None ELSE lastFull
          /\ did' = IF o = "fail1" THEN did ELSE did \cup {"delete"}
          /\ pc' = IF o = "ok" THEN "scan" ELSE "done"
          /\ result' = IF o = "ok" THEN result ELSE "fail"
    /\ UNCHANGED <<now, ticks, edited, processed, isFull, healthN, healthG,
                   readSync, matched, extracted, handed, upFailed, dbOk,
                   syncAtStart, fullAtStart, graphAtStart>>
    /\ UNCHANGED notSync

\* scanner.scan_for_changes(None) of a full sync, or _get_last_sync_time
\* followed by scanner.scan_for_changes(last_sync_time) of an incremental one.
\* An exception inside the scan is logged and answered with [].  With nothing
\* to apply both paths return True without calling the updater.
Scan ==
    /\ pc = "scan"
    /\ \E scanFails \in BOOLEAN, readFails \in BOOLEAN, extractOk \in SUBSET Pages :
          LET filter == IF isFull \/ readFails THEN None ELSE lastSync
              pass   == PassFilter(filter)
              got    == IF scanFails THEN {}
                        ELSE GetAllPagesMetadata(filter, extractOk)
              new    == NewPages(got, processed)
          IN  /\ (isFull => ~readFails)
              /\ (scanFails => extractOk = Pages)
              /\ extractOk \subseteq pass \/ extractOk = Pages
              /\ readSync' = filter
              /\ matched' = pass
              /\ extracted' = got
              /\ handed' = new
              /\ processed' = processed \cup got
              /\ pc' = IF new = {} THEN "stamp" ELSE "update"
    /\ did' = did \cup {"scan"}
    /\ UNCHANGED <<now, ticks, edited, graph, lastSync, lastFull, isFull, result,
                   healthN, healthG, upFailed, dbOk, syncAtStart, fullAtStart,
                   graphAtStart>>
    /\ UNCHANGED notSync

\* updater.update_graph(changed_pages): every page is upserted unless its
\* upsert fails on all attempts; the report is logged and the path returns True.
UpdateGraph ==
    /\ pc = "update"
    /\ \E failed \in SUBSET handed :
          /\ upFailed' = failed
          /\ graph' = graph \cup (handed \ failed)
    /\ did' = did \cup {"write"}
    /\ pc' = "stamp"
    /\ UNCHANGED <<now, ticks, edited, lastSync, lastFull, processed, isFull,
                   result, healthN, healthG, readSync, matched, extracted,
                   handed, dbOk, syncAtStart, fullAtStart, graphAtStart>>
    /\ UNCHANGED notSync

\* if success: _update_last_sync_time(); if should_do_full_sync:
\* _update_last_full_sync_time().  Each write is MERGE ... SET = datetime();
\* a write that raises is logged and swallowed.  The timestamps written with
\* the full-sync stamp skipped / stamped whatever the cycle was:
StampFullAlways(full, w2ok) == IF w2ok THEN now ELSE lastFull
StampFull(full, w2ok) == IF full /\ w2ok THEN now ELSE lastFull

StampTimes ==
    /\ pc = "stamp"
    /\ \E w1ok \in BOOLEAN, w2ok \in BOOLEAN :
          /\ (~isFull => w2ok)
          /\ lastSync' = IF w1ok THEN now ELSE lastSync
          /\ lastFull' = StampFull(isFull, w2ok)
          /\ dbOk' = (IF w1ok THEN {"sync"} ELSE {})
                       \cup (IF isFull /\ w2ok THEN {"full"} ELSE {})
    /\ did' = did \cup {"stamp"}
    /\ result' = "ok"
    /\ pc' = "done"
    /\ UNCHANGED <<now, ticks, edited, graph, processed, isFull, healthN,
                   healthG, readSync, matched, extracted, handed, upFailed,
                   syncAtStart, fullAtStart, graphAtStart>>
    /\ UNCHANGED notSync

(***************************************************************************)
(* SpecPolicy: _should_do_full_sync applied to bounded inputs.             *)
(***************************************************************************)
InitSyncIdle == InitSync /\ edited = [p \in Pages |-> None]

\* Recorded last_full_sync_time values: none, midnight UTC of day 0, and
\* 11:40 UTC of day 0.
PolicyRecorded == {None, 0, 700}

EvalPolicy ==
    /\ polOut = "none"
    /\ polIn # <<>>
    /\ polOut' = IF ShouldDoFullSync(polIn.countFails, polIn.pageCount,
                                     polIn.readFails, polIn.recorded,
                                     polIn.nowMin)
                 THEN "true" ELSE "false"
    /\ UNCHANGED polIn
    /\ UNCHANGED notPolicy

(***************************************************************************)
(* The protocol server: _validate_auth and the intent_search tool.         *)
(***************************************************************************)

\* A header value is a string; the model builds it from pieces so that
\* str.split() can be computed.  " " is whitespace, the others are not.
HeaderPieces == {" ", "Bearer", "bearer", "k", "x"}
IsSpace(c) == c = " "

\* The configured keys tried: the key "k" and the key "kx".
ApiKeys == {"k", "kx"}

\* The header value as one string.
RECURSIVE Flatten(_)
Flatten(ps) == IF ps = <<>> THEN "" ELSE Head(ps) \o Flatten(Tail(ps))

\* str.split() with no argument: the maximal runs of non-whitespace, in
\* order; `word` is the run being read ("" when between runs).
RECURSIVE SplitFrom(_, _, _)
SplitFrom(ps, word, acc) ==
    IF ps = <<>>
    THEN IF word = "" THEN acc ELSE Append(acc, word)
    ELSE IF IsSpace(Head(ps))
         THEN SplitFrom(Tail(ps), "", IF word = "" THEN acc ELSE Append(acc, word))
         ELSE SplitFrom(Tail(ps), word \o Head(ps), acc)

Split(ps) == SplitFrom(ps, "", <<>>)

\* get_bearer_token: the token, or a raised ValueError.
GetBearerTokenAnyScheme(hdr) ==
    IF hdr.present /\ Flatten(hdr.pieces) # ""
    THEN LET parts == Split(hdr.pieces) IN
         IF Len(parts) = 2
         THEN [raised |-> FALSE, token |-> parts[2]]
         ELSE [raised |-> TRUE, token |-> ""]
    ELSE [raised |-> TRUE, token |-> ""]

GetBearerToken(hdr) ==
    IF hdr.present /\ Flatten(hdr.pieces) # ""
    THEN LET parts == Split(hdr.pieces) IN
         IF Len(parts) = 2 /\ parts[1] = "Bearer"
         THEN [raised |-> FALSE, token |-> parts[2]]
         ELSE [raised |-> TRUE, token |-> ""]
    ELSE [raised |-> TRUE, token |-> ""]

\* `not self.settings.chimera_api_key`: no key, or the empty string.
NoApiKey(cfg) == ~cfg.hasKey \/ cfg.key = ""

\* ChimeraFastMCPServer._validate_auth
ValidateAuth(cfg, hdr) ==
    IF ~cfg.enable_auth \/ NoApiKey(cfg) THEN TRUE
    ELSE LET t == GetBearerToken(hdr) IN
         IF t.raised THEN FALSE ELSE t.token = cfg.key

\* The sequences over S of length at most n.
SeqsUpTo(S, n) == UNION {[1..k -> S] : k \in 0..n}

InitAuthIdle ==
    /\ authCfg = [enable_auth |-> FALSE, hasKey |-> FALSE, key |-> ""]
    /\ authHdr = [present |-> FALSE, pieces |-> <<>>]
    /\ authPc = "replied"
    /\ authRan = FALSE
    /\ authResp = [success |-> FALSE, paths |-> 0]

\* A request arrives at a server with some settings.
InitAuth ==
    /\ authCfg \in [enable_auth : BOOLEAN, hasKey : BOOLEAN, key : ApiKeys \cup {""}]
    /\ (~authCfg.hasKey => authCfg.key = "")
    /\ authHdr \in [present : BOOLEAN, pieces : SeqsUpTo(HeaderPieces, MaxHeaderPieces)]
    /\ (~authHdr.present => authHdr.pieces = <<>>)
    /\ authPc = "recv"
    /\ authRan = FALSE
    /\ authResp = [success |-> FALSE, paths |-> 0]

\* intent_search: the auth check, then search_user_intent and the assembly
\* of the paths.  The pipeline finds n paths (none: success=false) or an
\* exception escapes it after it was invoked (success=false, no paths).
IntentSearchTool ==
    /\ authPc = "recv"
    /\ authPc' = "replied"
    /\ IF ~ValidateAuth(authCfg, authHdr)
       THEN /\ authRan' = FALSE
            /\ authResp' = [success |-> FALSE, paths |-> 0]
       ELSE /\ authRan' = TRUE
            /\ \E n \in 0..MaxFoundPaths, raised \in BOOLEAN :
                  authResp' = IF raised \/ n = 0
                              THEN [success |-> FALSE, paths |-> 0]
                              ELSE [success |-> TRUE, paths |-> n]
    /\ UNCHANGED <<authCfg, authHdr>>
    /\ UNCHANGED notAuth

(***************************************************************************)
(* The path cache file: _write_cache_file of each generating process and   *)
(* the reader _get_complete_paths, over a file system of paths and inodes. *)
(***************************************************************************)

\* The processes that generate the cache: the continuous loop and a
\* run_chimera.py --generate-cache (or --manual-sync) run beside it.
Writers == {"loop", "cli"}

Inodes == 1..MaxGens

\* A cell of content: chunk k of the JSON text of generation g; a range of
\* a file that was never written reads as zero bytes.
Chunk(g, k) == <<g, k>>
ZeroBytes == <<0, 0>>

\* The complete JSON text of generation g.
CompleteJson(g) == [k \in 1..NumChunks |-> Chunk(g, k)]

\* write(2) of one cell at offset `off` (counted in cells) of a file.
WriteAt(data, off, cell) ==
    [i \in 1..(IF off + 1 > Len(data) THEN off + 1 ELSE Len(data)) |->
        IF i = off + 1 THEN cell
        ELSE IF i <= Len(data) THEN data[i] ELSE ZeroBytes]

IdleWriter == [pc |-> "idle", fd |-> 0, off |-> 0, gen |-> 0]

InitCache ==
    /\ fsTmp = 0
    /\ fsCache = 0
    /\ fsData = [i \in Inodes |-> <<>>]
    /\ fsNext = 1
    /\ cw = [w \in Writers |-> IdleWriter]
    /\ genCount = 0
    /\ cacheSeen = [absent |-> TRUE, data |-> <<>>]

\* generate_cache up to the call of _write_cache_file: the cache data of a
\* new generation is built from the graph.
BuildCacheData(w) ==
    /\ cw[w].pc = "idle"
    /\ genCount < MaxGens
    /\ genCount' = genCount + 1
    /\ cw' = [cw EXCEPT ![w] = [pc |-> "open", fd |-> 0, off |-> 0,
                                gen |-> genCount + 1]]
    /\ UNCHANGED <<fsTmp, fsCache, fsData, fsNext, cacheSeen>>
    /\ UNCHANGED notCache

\* open(temp_file, 'w'): creates the file, or truncates the file that is at
\* that path; temp_file is cache_file.with_suffix('.tmp') for every writer.
OpenTemp(w) ==
    /\ cw[w].pc = "open"
    /\ IF fsTmp = 0
       THEN /\ fsTmp' = fsNext
            /\ fsNext' = fsNext + 1
            /\ fsData' = [fsData EXCEPT ![fsNext] = <<>>]
            /\ cw' = [cw EXCEPT ![w].pc = "write", ![w].fd = fsNext]
       ELSE /\ fsData' = [fsData EXCEPT ![fsTmp] = <<>>]
            /\ cw' = [cw EXCEPT ![w].pc = "write", ![w].fd = fsTmp]
            /\ UNCHANGED <<fsTmp, fsNext>>
    /\ UNCHANGED <<fsCache, genCount, cacheSeen>>
    /\ UNCHANGED notCache

\* json.dump(cache_data, f, ...): the text reaches the file in chunks, each
\* written at the writer's own offset; the file is closed after the last.
WriteChunk(w) ==
    /\ cw[w].pc = "write"
    /\ fsData' = [fsData EXCEPT ![cw[w].fd] =
                      WriteAt(@, cw[w].off, Chunk(cw[w].gen, cw[w].off + 1))]
    /\ cw' = [cw EXCEPT ![w].off = @ + 1,
                        ![w].pc = IF cw[w].off + 1 = NumChunks
                                  THEN "replace" ELSE "write"]
    /\ UNCHANGED <<fsTmp, fsCache, fsNext, genCount, cacheSeen>>
    /\ UNCHANGED notCache

\* temp_file.replace(cache_file): the file at the temp path becomes the file
\* at the cache path; FileNotFoundError if there is none (generate_cache
\* logs it and returns False).
ReplaceCache(w) ==
    /\ cw[w].pc = "replace"
    /\ IF fsTmp = 0
       THEN UNCHANGED <<fsTmp, fsCache>>
       ELSE fsCache' = fsTmp /\ fsTmp' = 0
    /\ cw' = [cw EXCEPT ![w] = IdleWriter]
    /\ UNCHANGED <<fsData, fsNext, genCount, cacheSeen>>
    /\ UNCHANGED notCache

\* _get_complete_paths: cache_file.exists(), then open and json.load.
ReadCache ==
    /\ cacheSeen' = IF fsCache = 0
                    THEN [absent |-> TRUE, data |-> <<>>]
                    ELSE [absent |-> FALSE, data |-> fsData[fsCache]]
    /\ cacheSeen' # cacheSeen
    /\ UNCHANGED <<fsTmp, fsCache, fsData, fsNext, cw, genCount>>
    /\ UNCHANGED notCache

(***************************************************************************)
(* _build_paths of run_chimera.py on the pages map that _build_cache_data  *)
(* makes from the graph.                                                   *)
(***************************************************************************)
PageIds == 1..MaxNodes
Titles == {"A", "B"}

\* children_ids of page p: the pages of the map with a CHILD_OF edge to p.
ChildrenIds(p) == {c \in pmKeys : pmParent[c] = p}

\* The k-th page above p along parent_id, 0 once the chain has left the map.
RECURSIVE Above(_, _)
Above(p, k) ==
    IF p \notin pmKeys THEN 0
    ELSE IF k = 0 THEN p ELSE Above(pmParent[p], k - 1)

\* The map is a forest: no chain of parent_id comes back into a cycle.
IsForest == \A p \in pmKeys : Above(p, MaxNodes) = 0

\* A list of the elements of a set of numbers (the order of dict keys; the
\* model takes them in ascending order).
RECURSIVE ListOf(_)
ListOf(S) ==
    IF S = {} THEN <<>>
    ELSE LET m == CHOOSE x \in S : \A y \in S : x <= y
         IN  <<m>> \o ListOf(S \ {m})

\* leaf_nodes = [pid for pid, page in pages_map.items() if not page["children_ids"]]
LeafNodes == {p \in pmKeys : ChildrenIds(p) = {}}

\* list.insert(0, x), and list.append(x)
InsertBack(list, x) == Append(list, x)
InsertFront(list, x) == <<x>> \o list

\* " -> ".join(path_titles)
RECURSIVE JoinArrow(_)
JoinArrow(titles) ==
    IF titles = <<>> THEN ""
    ELSE IF Len(titles) = 1 THEN titles[1]
    ELSE titles[1] \o " -> " \o JoinArrow(Tail(titles))

InitPathsIdle ==
    /\ pmKeys = {}
    /\ pmParent = <<>>
    /\ pmTitle = <<>>
    /\ bpPc = "done"
    /\ bpLeaves = <<>>
    /\ bpCur = 0
    /\ bpIds = <<>>
    /\ bpTitles = <<>>
    /\ bpPaths = <<>>

\* Any forest of at most MaxNodes pages; a parent_id may name a page that
\* is not a key of the map.
InitPaths ==
    /\ pmKeys \in SUBSET PageIds
    /\ pmParent \in [pmKeys -> {0} \cup PageIds]
    /\ pmTitle \in [pmKeys -> Titles]
    /\ IsForest
    /\ bpPc = "start"
    /\ bpLeaves = <<>>
    /\ bpCur = 0
    /\ bpIds = <<>>
    /\ bpTitles = <<>>
    /\ bpPaths = <<>>

\* Any map the query of _build_cache_data can return: the CHILD_OF edges of
\* the graph are never removed when a page moves, so parent_id may lead
\* into a cycle.
InitPathsAny ==
    /\ pmKeys \in SUBSET PageIds
    /\ pmParent \in [pmKeys -> {0} \cup PageIds]
    /\ \A p \in pmKeys : pmParent[p] # p
    /\ pmTitle \in [pmKeys -> {"A"}]
    /\ bpPc = "start"
    /\ bpLeaves = <<>>
    /\ bpCur = 0
    /\ bpIds = <<>>
    /\ bpTitles = <<>>
    /\ bpPaths = <<>>

\* The walk of the next leaf starts: path_ids = [], current_id = leaf_id.
BeginLeaf(leaves) ==
    /\ bpLeaves' = leaves
    /\ bpIds' = <<>>
    /\ bpTitles' = <<>>
    /\ IF leaves = <<>>
       THEN bpPc' = "done" /\ bpCur' = 0
       ELSE bpPc' = "walk" /\ bpCur' = Head(leaves)

FindLeaves ==
    /\ bpPc = "start"
    /\ BeginLeaf(ListOf(LeafNodes))
    /\ UNCHANGED <<pmKeys, pmParent, pmTitle, bpPaths>>
    /\ UNCHANGED notPaths

\* One turn of `while current_id and current_id in pages_map`.
WalkUp ==
    /\ bpPc = "walk"
    /\ bpCur # 0 /\ bpCur \in pmKeys
    /\ Len(bpIds) < MaxWalk
    /\ bpIds' = InsertFront(bpIds, bpCur)
    /\ bpTitles' = InsertFront(bpTitles, pmTitle[bpCur])
    /\ bpCur' = pmParent[bpCur]
    /\ UNCHANGED <<pmKeys, pmParent, pmTitle, bpPc, bpLeaves, bpPaths>>
    /\ UNCHANGED notPaths

\* The loop is left: the path is appended if it has any id, and the next
\* leaf is taken.
AppendPath ==
    /\ bpPc = "walk"
    /\ ~(bpCur # 0 /\ bpCur \in pmKeys)
    /\ bpPaths' = IF Len(bpIds) > 0
                  THEN Append(bpPaths,
                         [path_string |-> JoinArrow(bpTitles),
                          path_titles |-> bpTitles,
                          path_ids    |-> bpIds,
                          leaf_id     |-> Head(bpLeaves),
                          leaf_title  |-> pmTitle[Head(bpLeaves)],
                          path_length |-> Len(bpIds) - 1])
                  ELSE bpPaths
    /\ BeginLeaf(Tail(bpLeaves))
    /\ UNCHANGED <<pmKeys, pmParent, pmTitle>>
    /\ UNCHANGED notPaths

(***************************************************************************)
(* GraphitiClient.upsert_page and create_relationships on the NotionPage   *)
(* nodes and the CHILD_OF edges.                                           *)
(***************************************************************************)
GraphPages == {"p1", "p2", "p3"}
NoParent == ""

\* The parent_id a page's metadata can carry: None or another page.
ParentsOf(p) == {NoParent} \cup (GraphPages \ {p})

CallOutcomes == {"ok", "failBefore", "failAfter"}

\* MERGE (p:NotionPage {notionId: $notionId}) SET ... p.parentId = $parentId
MergePage(p, parent) ==
    /\ gNodes' = gNodes \cup {p}
    /\ gParentId' = [gParentId EXCEPT ![p] = parent]

\* _create_relationship: MATCH (source) MATCH (target) MERGE (source)-[r]->(target);
\* the mutant deletes the other CHILD_OF edges of the source first.
CreateRelationshipReplacing(source, target) ==
    IF source \in gNodes /\ target \in gNodes
    THEN (gChildOf \ {e \in gChildOf : e[1] = source}) \cup {<<source, target>>}
    ELSE gChildOf
CreateRelationship(source, target) ==
    IF source \in gNodes /\ target \in gNodes
    THEN gChildOf \cup {<<source, target>>}
    ELSE gChildOf

\* What create_relationships leaves of the CHILD_OF edges: the edge query
\* is the first one it runs, so it has run unless the call failed before it.
ChildOfAfter(p, parent, outcome) ==
    IF parent # NoParent /\ outcome # "failBefore"
    THEN CreateRelationship(p, parent)
    ELSE gChildOf

InitStore ==
    /\ gNodes = {}
    /\ gParentId = [p \in GraphPages |-> NoParent]
    /\ gChildOf = {}
    /\ gLast = [p \in GraphPages |-> [op |-> "none", parent |-> NoParent]]
    /\ gRet = TRUE

\* upsert_page(page_metadata): True when the query returned the node,
\* False when it raised.
UpsertPage(p, parent, ok) ==
    /\ IF ok
       THEN /\ MergePage(p, parent)
            /\ gLast' = [gLast EXCEPT ![p] = [op |-> "upsert", parent |-> parent]]
       ELSE /\ UNCHANGED <<gNodes, gParentId>>
            /\ gLast' = [gLast EXCEPT ![p] = [op |-> "upsertFailed", parent |-> parent]]
    /\ gRet' = ok
    /\ UNCHANGED gChildOf

\* create_relationships(page_metadata): True, or False when any of its
\* queries raised.
CreateRelationships(p, parent, outcome) ==
    /\ gChildOf' = ChildOfAfter(p, parent, outcome)
    /\ gLast' = [gLast EXCEPT ![p] =
                    [op |-> IF outcome = "ok" THEN "rel" ELSE "relFailed",
                     parent |-> parent]]
    /\ gRet' = (outcome = "ok")
    /\ UNCHANGED <<gNodes, gParentId>>

CallUpsertPage ==
    \E p \in GraphPages : \E parent \in ParentsOf(p) : \E ok \in BOOLEAN :
        /\ UpsertPage(p, parent, ok)
        /\ UNCHANGED notStore

\* The one caller, _process_single_page, passes the metadata it has just
\* upserted.
CallCreateRelationships ==
    \E p \in GraphPages : \E outcome \in CallOutcomes :
        /\ gLast[p].op = "upsert"
        /\ CreateRelationships(p, gLast[p].parent, outcome)
        /\ UNCHANGED notStore

(***************************************************************************)
(* GraphUpdater.update_graph: the list is cut into batches, the pages of a *)
(* batch are processed by concurrent coroutines, each with retries.        *)
(***************************************************************************)

\* self._max_retries
MaxRetries == 3

\* self._retry_delay, in seconds
RetryDelay == 1

Min(a, b) == IF a < b THEN a ELSE b

\* The lists without repetition of at most n of the pages.
ListsUpTo(n) ==
    {l \in UNION {[1..k -> GraphPages] : k \in 0..n} :
        \A i, j \in 1..Len(l) : i # j => l[i] # l[j]}

\* batch = pages[i:i + self._batch_size]
BatchAt(i) == SubSeq(upPages, i + 1, Min(i + BatchSize, Len(upPages)))

InBatch(p) == \E k \in 1..Len(BatchAt(upI)) : BatchAt(upI)[k] = p

\* A coroutine _process_single_page: where it is, its attempt, what
\* _page_exists said, the upsert attempts that failed and succeeded, the
\* seconds left of its asyncio.sleep, and the seconds each of its sleeps
\* has lasted.
NoTask == [pc |-> "none", attempt |-> 0, page_exists |-> FALSE,
           failures |-> 0, upserts |-> 0,
           remaining |-> 0, waited |-> <<>>]

\* What is left of a task once gather has its result: whether it returned
\* or raised, and the upsert attempts it made.
Finished(task) ==
    [NoTask EXCEPT !.pc = task.pc, !.failures = task.failures,
                   !.upserts = task.upserts]

\* asyncio.sleep(self._retry_delay * (attempt + 1)), in seconds
SleepDelayFlat(attempt) == RetryDelay
SleepDelay(attempt) == RetryDelay * (attempt + 1)

EmptyReport == [errors |-> <<>>, pages_created |-> 0, pages_updated |-> 0,
                status |-> "running"]

\* The tasks of the batch whose result is an exception, in the order of the
\* batch: one error entry each.
RECURSIVE BatchErrorsFirstOnly(_)
BatchErrorsFirstOnly(batch) ==
    IF batch = <<>> THEN <<>>
    ELSE IF upTask[Head(batch)].pc = "raised" THEN <<Head(batch)>>
    ELSE BatchErrorsFirstOnly(Tail(batch))
RECURSIVE BatchErrors(_)
BatchErrors(batch) ==
    IF batch = <<>> THEN <<>>
    ELSE (IF upTask[Head(batch)].pc = "raised" THEN <<Head(batch)>> ELSE <<>>)
            \o BatchErrors(Tail(batch))

\* The sum of pages_created (created = TRUE) or pages_updated of the tasks
\* that returned their tuple.
RECURSIVE BatchCount(_, _)
BatchCount(batch, created) ==
    IF batch = <<>> THEN 0
    ELSE (IF /\ upTask[Head(batch)].pc = "ok"
             /\ upTask[Head(batch)].page_exists = ~created
          THEN 1 ELSE 0) + BatchCount(Tail(batch), created)

\* report.status = "completed" if not report.errors else "completed_with_errors"
ReportStatus(errors) ==
    IF errors = <<>> THEN "completed" ELSE "completed_with_errors"

\* The parent_id of the pages' metadata: all at the top level, or p1 above
\* p2 above p3 (the list takes them in any order).
MetaChoices ==
    {[p \in GraphPages |-> NoParent],
     [p \in GraphPages |-> IF p = "p2" THEN "p1"
                           ELSE IF p = "p3" THEN "p2" ELSE NoParent]}

\* The pages the graph holds when update_graph is called: none, one, all.
InitialGraphs == {{}, {"p1"}, GraphPages}

InitUpdIdle ==
    /\ upPages = <<>>
    /\ upMeta = [p \in GraphPages |-> NoParent]
    /\ upPc = "done"
    /\ upI = 0
    /\ upTask = [p \in GraphPages |-> NoTask]
    /\ upReport = EmptyReport

\* update_graph is called with a list of at most MaxUpdPages pages, on a
\* graph that holds some of the pages already.
InitUpd ==
    /\ upPages \in ListsUpTo(MaxUpdPages)
    /\ upMeta \in MetaChoices
    /\ upPc = "next"
    /\ upI = 0
    /\ upTask = [p \in GraphPages |-> NoTask]
    /\ upReport = EmptyReport
    /\ gNodes \in InitialGraphs
    /\ gParentId = [p \in GraphPages |-> NoParent]
    /\ gChildOf = {}
    /\ gLast = [p \in GraphPages |-> [op |-> "none", parent |-> NoParent]]
    /\ gRet = TRUE

\* _process_batch creates one task per page of the batch.
ProcessBatch ==
    /\ upPc = "next"
    /\ upI < Len(upPages)
    /\ upTask' = [p \in GraphPages |->
                    IF InBatch(p) THEN [NoTask EXCEPT !.pc = "exists"]
                    ELSE upTask[p]]
    /\ upPc' = "gather"
    /\ UNCHANGED <<upPages, upMeta, upI, upReport>>
    /\ UNCHANGED storeVars
    /\ UNCHANGED notUpd

\* _page_exists: False as well when its query raises.
TaskPageExists(p) ==
    /\ upPc = "gather"
    /\ upTask[p].pc = "exists"
    /\ \E queryOk \in BOOLEAN :
          upTask' = [upTask EXCEPT ![p].page_exists = queryOk /\ p \in gNodes,
                                   ![p].pc = "upsert"]
    /\ UNCHANGED <<upPages, upMeta, upPc, upI, upReport>>
    /\ UNCHANGED storeVars
    /\ UNCHANGED notUpd

\* upsert_page; when it returns False the attempt raises, and the task
\* either sleeps and tries again or, on the last attempt, re-raises.
TaskUpsertPage(p) ==
    /\ upPc = "gather"
    /\ upTask[p].pc = "upsert"
    /\ \E ok \in BOOLEAN :
          /\ UpsertPage(p, upMeta[p], ok)
          /\ upTask' = [upTask EXCEPT ![p] =
                IF ok
                THEN [@ EXCEPT !.pc = "rel", !.upserts = @ + 1]
                ELSE IF @.attempt = MaxRetries - 1
                THEN [@ EXCEPT !.pc = "raised", !.failures = @ + 1]
                ELSE [@ EXCEPT !.pc = "sleep", !.failures = @ + 1,
                               !.remaining = SleepDelay(upTask[p].attempt),
                               !.waited = Append(@, 0)]]
    /\ UNCHANGED <<upPages, upMeta, upPc, upI, upReport>>
    /\ UNCHANGED notUpd

\* A second passes for the tasks that sleep.
SecondPasses ==
    /\ upPc = "gather"
    /\ \E p \in GraphPages : upTask[p].pc = "sleep" /\ upTask[p].remaining > 0
    /\ upTask' = [p \in GraphPages |->
                    IF upTask[p].pc = "sleep" /\ upTask[p].remaining > 0
                    THEN [upTask[p] EXCEPT
                            !.remaining = @ - 1,
                            !.waited[Len(upTask[p].waited)] = @ + 1]
                    ELSE upTask[p]]
    /\ UNCHANGED <<upPages, upMeta, upPc, upI, upReport>>
    /\ UNCHANGED storeVars
    /\ UNCHANGED notUpd

\* The sleep is over: the loop goes to its next attempt.
TaskWake(p) ==
    /\ upPc = "gather"
    /\ upTask[p].pc = "sleep"
    /\ upTask[p].remaining = 0
    /\ upTask' = [upTask EXCEPT ![p] =
                    [@ EXCEPT !.pc = "exists", !.attempt = @ + 1]]
    /\ UNCHANGED <<upPages, upMeta, upPc, upI, upReport>>
    /\ UNCHANGED storeVars
    /\ UNCHANGED notUpd

\* create_relationships; its result is only logged, and the task returns
\* its tuple.
TaskCreateRelationships(p) ==
    /\ upPc = "gather"
    /\ upTask[p].pc = "rel"
    /\ \E outcome \in CallOutcomes :
          CreateRelationships(p, upMeta[p], outcome)
    /\ upTask' = [upTask EXCEPT ![p].pc = "ok"]
    /\ UNCHANGED <<upPages, upMeta, upPc, upI, upReport>>
    /\ UNCHANGED notUpd

\* asyncio.gather(..., return_exceptions=True) has every result; the batch
\* report is merged into the report.
GatherResults ==
    /\ upPc = "gather"
    /\ \A p \in GraphPages : InBatch(p) => upTask[p].pc \in {"ok", "raised"}
    /\ upReport' = [upReport EXCEPT
          !.errors = @ \o BatchErrors(BatchAt(upI)),
          !.pages_created = @ + BatchCount(BatchAt(upI), TRUE),
          !.pages_updated = @ + BatchCount(BatchAt(upI), FALSE)]
    /\ upI' = upI + BatchSize
    /\ upPc' = "next"
    /\ upTask' = [p \in GraphPages |->
                    IF InBatch(p) THEN Finished(upTask[p]) ELSE upTask[p]]
    /\ UNCHANGED <<upPages, upMeta>>
    /\ UNCHANGED storeVars
    /\ UNCHANGED notUpd

\* No batch is left: the status is set and the report returned.
ReturnReport ==
    /\ upPc = "next"
    /\ upI >= Len(upPages)
    /\ upReport' = [upReport EXCEPT !.status = ReportStatus(upReport.errors)]
    /\ upPc' = "done"
    /\ UNCHANGED <<upPages, upMeta, upI, upTask>>
    /\ UNCHANGED storeVars
    /\ UNCHANGED notUpd

(***************************************************************************)
(* NotionExtractor._rate_limit_wait, called by the coroutines that use one *)
(* NotionExtractor instance.                                               *)
(***************************************************************************)
Coroutines == {"c1", "c2"}

\* The request leaves _rate_limit_wait: self._last_request_time = time().
Release ==
    /\ rlLast' = rlNow
    /\ rlPrev' = rlNow
    /\ rlGap' = IF rlPrev = None THEN None ELSE rlNow - rlPrev

InitRate ==
    /\ rlNow = 0
    /\ rlLast = 0
    /\ rlCo = [c \in Coroutines |-> [pc |-> "out", wakeAt |-> 0]]
    /\ rlPrev = None
    /\ rlGap = None

\* The loop's clock advances.
ClockTick ==
    /\ rlNow < MaxClock
    /\ rlNow' = rlNow + 1
    /\ UNCHANGED <<rlLast, rlCo, rlPrev, rlGap>>
    /\ UNCHANGED notRate

\* Coroutine c enters _rate_limit_wait: it goes to sleep for what is missing
\* of min_interval, or is released at once.
RateLimitWait(c) ==
    /\ rlCo[c].pc = "out"
    /\ LET time_since_last == rlNow - rlLast
       IN  IF time_since_last < MinInterval
           THEN /\ rlCo' = [rlCo EXCEPT ![c] =
                             [pc |-> "sleep",
                              wakeAt |-> rlNow + (MinInterval - time_since_last)]]
                /\ UNCHANGED <<rlLast, rlPrev, rlGap>>
           ELSE /\ Release
                /\ UNCHANGED rlCo
    /\ UNCHANGED rlNow
    /\ UNCHANGED notRate

\* The sleep of coroutine c is over, and it is released.
SleepReturns(c) ==
    /\ rlCo[c].pc = "sleep"
    /\ rlNow >= rlCo[c].wakeAt
    /\ rlCo' = [rlCo EXCEPT ![c] = [pc |-> "out", wakeAt |-> 0]]
    /\ Release
    /\ UNCHANGED rlNow
    /\ UNCHANGED notRate

(***************************************************************************)
(* get_path_contents_async: it overrides file_extractor.max_content_length *)
(* for the time of the call; the calls of concurrent tool requests overlap *)
(* at the awaits of their page fetches.                                    *)
(***************************************************************************)
PathCalls == {"r1", "r2"}

\* FileExtractor.__init__: self.max_content_length = 8000
DefaultMaxContentLength == 8000
MaxFailures == 10

\* max_file_content_length of a request: 0 leaves the threshold alone.
FileLengths == {0, 2000, 5000}

NoCall == [pc |-> "idle", original_max_length |-> 0, left |-> 0]

InitTrunc ==
    /\ feMax = DefaultMaxContentLength
    /\ feBefore = DefaultMaxContentLength
    /\ gpCall = [c \in PathCalls |-> NoCall]

\* The call starts: it remembers the threshold and sets its own, and runs
\* to the await of its first page fetch; with no page in the path it runs
\* through to its finally clause and returns.
EnterPathContents(c) ==
    /\ gpCall[c].pc = "idle"
    /\ \E len \in FileLengths : \E pages \in 0..MaxPathPages :
          IF pages = 0
          THEN /\ gpCall' = [gpCall EXCEPT ![c] =
                               [pc |-> "returned", original_max_length |-> feMax,
                                left |-> 0]]
               /\ feMax' = feMax
          ELSE /\ gpCall' = [gpCall EXCEPT ![c] =
                               [pc |-> "await", original_max_length |-> feMax,
                                left |-> pages]]
               /\ feMax' = IF len > 0 THEN len ELSE feMax
    /\ feBefore' = IF \A d \in PathCalls : gpCall[d].pc = "idle"
                   THEN feMax ELSE feBefore
    /\ UNCHANGED notTrunc

\* The page fetch the call awaits is over (with the content, or with an
\* exception that the inner handler turns into an entry of the list): the
\* call goes on to the await of the next page, or after its last page
\* restores the threshold and returns.
PageFetched(c) ==
    /\ gpCall[c].pc = "await"
    /\ IF gpCall[c].left > 1
       THEN /\ gpCall' = [gpCall EXCEPT ![c].left = @ - 1]
            /\ UNCHANGED feMax
       ELSE /\ gpCall' = [gpCall EXCEPT ![c].left = 0, ![c].pc = "returned"]
            /\ feMax' = gpCall[c].original_max_length
    /\ UNCHANGED feBefore
    /\ UNCHANGED notTrunc

\* The call is cancelled at its await, which the inner handler does not
\* catch: the finally clause restores the threshold and the call raises.
CancelledAtFetch(c) ==
    /\ gpCall[c].pc = "await"
    /\ gpCall' = [gpCall EXCEPT ![c].pc = "raised"]
    /\ feMax' = gpCall[c].original_max_length
    /\ UNCHANGED feBefore
    /\ UNCHANGED notTrunc

\* The request is over; another one may come.
NextRequest(c) ==
    /\ gpCall[c].pc \in {"returned", "raised"}
    /\ \A d \in PathCalls : gpCall[d].pc # "await"
    /\ gpCall' = [gpCall EXCEPT ![c] = NoCall]
    /\ UNCHANGED <<feMax, feBefore>>
    /\ UNCHANGED notTrunc

(***************************************************************************)
(* IntentSearchEngine.search_by_intent and _build_confidence_paths, as the *)
(* intent_search tool and the direct callers use them.  Scores and         *)
(* thresholds are in tenths.                                               *)
(***************************************************************************)

\* confidence_score: float = Field(..., ge=0.0, le=1.0), in tenths
ScoreOne == 10

\* The scores an evaluator (the language model) puts in its answer.
Scores == {4, 8, 9, 12}
Thresholds == {5, 8}

\* kwargs.get(key, default)
KwargsGet(kwargs, key, default) ==
    IF key \in DOMAIN kwargs THEN kwargs[key] ELSE default

\* The items whose score is at least the threshold, in the order of the
\* list.
RECURSIVE HighConfidenceFrom(_, _, _)
HighConfidenceFrom(evals, i, threshold) ==
    IF i > Len(evals) THEN <<>>
    ELSE (IF evals[i] >= threshold THEN <<i>> ELSE <<>>)
            \o HighConfidenceFrom(evals, i + 1, threshold)

HighConfidenceEvals(evals, threshold) == HighConfidenceFrom(evals, 1, threshold)

\* list.sort(key=score, reverse=True): by descending score, items of equal
\* score in the order they had.
RECURSIVE InsertByScore(_, _, _)
InsertByScore(sorted, item, evals) ==
    IF sorted = <<>> THEN <<item>>
    ELSE IF evals[Head(sorted)] >= evals[item]
    THEN <<Head(sorted)>> \o InsertByScore(Tail(sorted), item, evals)
    ELSE <<item>> \o sorted

RECURSIVE SortByScore(_, _)
SortByScore(items, evals) ==
    IF items = <<>> THEN <<>>
    ELSE InsertByScore(SortByScore(SubSeq(items, 1, Len(items) - 1), evals),
                       items[Len(items)], evals)

\* seq[:n]
FirstN(seq, n) == SubSeq(seq, 1, Min(n, Len(seq)))

\* CorePageResult(...) is built unless its confidence_score is out of range;
\* the exception is caught in the loop and the item skipped.
CorePageBuilt(score) == 0 <= score /\ score <= ScoreOne

RECURSIVE BuiltOnly(_, _)
BuiltOnly(items, evals) ==
    IF items = <<>> THEN <<>>
    ELSE (IF CorePageBuilt(evals[Head(items)]) THEN <<Head(items)>> ELSE <<>>)
            \o BuiltOnly(Tail(items), evals)

\* _build_confidence_paths: filter, sort, cut, build; the mutant cuts
\* before it sorts.
BuildConfidencePathsCutFirst(evals, threshold, max_results) ==
    BuiltOnly(
        SortByScore(FirstN(HighConfidenceEvals(evals, threshold), max_results),
                    evals),
        evals)
BuildConfidencePaths(evals, threshold, max_results) ==
    BuiltOnly(
        FirstN(SortByScore(HighConfidenceEvals(evals, threshold), evals),
               max_results),
        evals)

\* The keyword arguments of the intent_search tool, and of a caller that
\* names max_results.
ToolKwargs ==
    [confidence_threshold : Thresholds, search_results : 1..MaxResults,
     expansion_depth : {1}]
DirectKwargs ==
    [confidence_threshold : Thresholds, max_results : 1..MaxResults]

InitSelIdle ==
    /\ selKwargs = [expansion_depth |-> 1]
    /\ selEvals = <<>>
    /\ selPc = "done"
    /\ selKept = <<>>
    /\ selPaths = 0

InitSel ==
    /\ selKwargs \in ToolKwargs \cup DirectKwargs
    /\ selEvals \in UNION {[1..n -> Scores] : n \in 0..MaxEvals}
    /\ selPc = "call"
    /\ selKept = <<>>
    /\ selPaths = 0

\* search_by_intent builds its request from the keyword arguments it knows
\* and selects the paths; the tool answers one path per confidence path.
SearchByIntent ==
    /\ selPc = "call"
    /\ selKept' = BuildConfidencePaths(
                     selEvals,
                     KwargsGet(selKwargs, "confidence_threshold", 7),
                     KwargsGet(selKwargs, "max_results", 2))
    /\ selPaths' = Len(selKept')
    /\ selPc' = "done"
    /\ UNCHANGED <<selKwargs, selEvals>>
    /\ UNCHANGED notSel

(***************************************************************************)
(* SyncScheduler: the polling loop task and the calls made on the          *)
(* scheduler from outside it.  Time is in ticks of one polling period.     *)
(***************************************************************************)

\* await asyncio.sleep(10): one tick
PollTicks == 1

\* The sync intervals in use, in ticks.
Intervals == {1, 2}

NoLoop == [pc |-> "none", wakeAt |-> 0]

\* A scheduler that is made and not started, with the first interval.
InitSchIdle ==
    /\ schNow = 0
    /\ schRunning = FALSE
    /\ schInterval = 1
    /\ schNext = None
    /\ schLast = None
    /\ schCount = 0
    /\ schLoop = NoLoop
    /\ schPaused = FALSE
    /\ schImm = 0

InitSch ==
    /\ schNow = 0
    /\ schRunning = FALSE
    /\ schInterval \in Intervals
    /\ schNext = None
    /\ schLast = None
    /\ schCount = 0
    /\ schLoop = NoLoop
    /\ schPaused = FALSE
    /\ schImm = 0

SchedTick ==
    /\ schNow < MaxSchedClock
    /\ schNow' = schNow + 1
    /\ UNCHANGED <<schRunning, schInterval, schNext, schLast, schCount,
                   schLoop, schPaused>>
    /\ UNCHANGED schImm
    /\ UNCHANGED notSch

\* start(): nothing if already running; else the loop task is created.
SchedStart ==
    /\ ~schRunning
    /\ schRunning' = TRUE
    /\ schNext' = schNow + schInterval
    /\ schLoop' = [pc |-> "poll", wakeAt |-> schNow]
    /\ schPaused' = FALSE
    /\ UNCHANGED <<schNow, schInterval, schLast, schCount>>
    /\ UNCHANGED schImm
    /\ UNCHANGED notSch

\* stop(): the task is cancelled, wherever it is.
SchedStop ==
    /\ schRunning
    /\ schRunning' = FALSE
    /\ schLoop' = [pc |-> IF schLoop.pc \in {"poll", "sync"}
                          THEN "cancelled" ELSE schLoop.pc,
                   wakeAt |-> 0]
    /\ UNCHANGED <<schNow, schInterval, schNext, schLast, schCount, schPaused>>
    /\ UNCHANGED schImm
    /\ UNCHANGED notSch

\* One turn of the loop: `now >= self._next_sync_time` raises TypeError
\* when the time is None, which ends the loop in its `except Exception`;
\* when the time has come _execute_sync starts the callback; else the loop
\* sleeps one more period.
LoopPoll ==
    /\ schLoop.pc = "poll"
    /\ schNow >= schLoop.wakeAt
    /\ schLoop' = IF ~schRunning THEN [pc |-> "ended", wakeAt |-> 0]
                  ELSE IF schNext = None THEN [pc |-> "dead", wakeAt |-> 0]
                  ELSE IF schNow >= schNext THEN [pc |-> "sync", wakeAt |-> 0]
                  ELSE [pc |-> "poll", wakeAt |-> schNow + PollTicks]
    /\ UNCHANGED <<schNow, schRunning, schInterval, schNext, schLast, schCount,
                   schPaused>>
    /\ UNCHANGED schImm
    /\ UNCHANGED notSch

\* The callback of _execute_sync returns (True or False) or raises: the
\* next sync time is set in both cases, and the loop sleeps a period.
ExecuteSyncReturns ==
    /\ schLoop.pc = "sync"
    /\ \E raised \in BOOLEAN :
          IF raised
          THEN UNCHANGED <<schCount, schLast>>
          ELSE schCount' = Min(schCount + 1, MaxSyncCount) /\ schLast' = schNow
    /\ schNext' = schNow + schInterval
    /\ schLoop' = [pc |-> "poll", wakeAt |-> schNow + PollTicks]
    /\ UNCHANGED <<schNow, schRunning, schInterval, schPaused>>
    /\ UNCHANGED schImm
    /\ UNCHANGED notSch

\* trigger_immediate_sync() is called, from any task: it awaits the
\* callback at once, whatever the loop is doing.
TriggerImmediateSync ==
    /\ schImm < MaxImmediate
    /\ schImm' = schImm + 1
    /\ UNCHANGED <<schNow, schRunning, schInterval, schNext, schLast, schCount,
                   schLoop, schPaused>>
    /\ UNCHANGED notSch

\* The callback of trigger_immediate_sync has returned or raised; the next
\* sync time is left alone.
ImmediateSyncReturns ==
    /\ schImm > 0
    /\ schImm' = schImm - 1
    /\ \E success \in BOOLEAN :
          IF success
          THEN schCount' = Min(schCount + 1, MaxSyncCount) /\ schLast' = schNow
          ELSE UNCHANGED <<schCount, schLast>>
    /\ UNCHANGED <<schNow, schRunning, schInterval, schNext, schLoop, schPaused>>
    /\ UNCHANGED notSch

\* reschedule(new_interval_minutes)
Reschedule ==
    /\ \E new \in Intervals :
          /\ schInterval' = new
          /\ schNext' = IF schLast # None THEN schLast + new ELSE schNow + new
    /\ UNCHANGED <<schNow, schRunning, schLast, schCount, schLoop, schPaused>>
    /\ UNCHANGED schImm
    /\ UNCHANGED notSch

\* pause()
Pause ==
    /\ schNext' = None
    /\ schPaused' = TRUE
    /\ UNCHANGED <<schNow, schRunning, schInterval, schLast, schCount, schLoop>>
    /\ UNCHANGED schImm
    /\ UNCHANGED notSch

\* resume()
Resume ==
    /\ schNext' = schNow + schInterval
    /\ schPaused' = FALSE
    /\ UNCHANGED <<schNow, schRunning, schInterval, schLast, schCount, schLoop>>
    /\ UNCHANGED schImm
    /\ UNCHANGED notSch

(***************************************************************************)
(* NotionClient.get_page_content over NotionExtractor.get_page_content     *)
(* (or get_page_content_with_files).  Strings are modelled by their kind.  *)
(***************************************************************************)

ContentPages == {"pgA", "pgB"}

\* What blocks.children.list does for the page: blocks with text, blocks
\* with only blank text, no blocks, or an APIResponseError.
ApiAnswers == {"text", "blank", "empty", "not_found", "not_shared", "other_error"}

\* What pages.retrieve does in get_page_basic_info.
InfoAnswers == {"titled", "failed"}

\* Python's None where a string is expected.
NoText == "None"

NoRequest == [page |-> "", files |-> FALSE, api |-> "", info |-> ""]

\* The extractor's get_page_content / get_page_content_with_files: the
\* joined text, or None from the handler of every exception.
ExtractorGetPageContent(api) ==
    [value  |-> IF api \in {"text", "blank", "empty"} THEN api ELSE NoText,
     raised |-> NoText]

\* The text of the client's except branch for an error message.
ClientExceptText(error_msg) ==
    IF error_msg = "not_found" THEN "not_found_guidance"
    ELSE IF error_msg = "not_shared" THEN "not_shared_guidance"
    ELSE "generic_error"

\* `content and content.strip()`
HasContent(content) == content # NoText /\ content = "text"

\* get_page_basic_info: the title, or None from its handler.
PageTitle(info) == IF info = "titled" THEN "title" ELSE "Unknown"

InitCt ==
    /\ ctReq = NoRequest
    /\ ctPc = "idle"
    /\ ctContent = NoText
    /\ ctResult = ""

\* get_page_content(page_id, include_files) is called and awaits the
\* extractor.
CallGetPageContent ==
    /\ ctPc \in {"idle", "done"}
    /\ \E pg \in ContentPages, f \in BOOLEAN, api \in ApiAnswers,
          info \in InfoAnswers :
          ctReq' = [page |-> pg, files |-> f, api |-> api, info |-> info]
    /\ ctPc' = "extract"
    /\ ctContent' = NoText
    /\ ctResult' = ""
    /\ UNCHANGED notCt

\* The extractor returns; the client returns the content, or goes on to
\* ask for the page's basic info, or handles what was raised.
ExtractorReturns ==
    /\ ctPc = "extract"
    /\ LET r == ExtractorGetPageContent(ctReq.api)
       IN /\ ctContent' = r.value
          /\ IF r.raised # NoText
             THEN ctPc' = "done" /\ ctResult' = ClientExceptText(r.raised)
             ELSE IF HasContent(r.value)
             THEN ctPc' = "done" /\ ctResult' = "content"
             ELSE ctPc' = "info" /\ ctResult' = ""
    /\ UNCHANGED ctReq
    /\ UNCHANGED notCt

\* get_page_basic_info returns (a dict or None); the client returns the
\* "page has no content" text with the title or 'Unknown'.
BasicInfoReturns ==
    /\ ctPc = "info"
    /\ ctPc' = "done"
    /\ ctResult' = "no_content:" \o PageTitle(ctReq.info)
    /\ UNCHANGED <<ctReq, ctContent>>
    /\ UNCHANGED notCt

(***************************************************************************)
(* run_chimera.py: the one-shot modes of main, call by call, down to the   *)
(* exit status of the process.                                             *)
(***************************************************************************)

\* The modes of main; "continuous" is the default one, which loops.
Modes == {"manual_sync", "status", "generate_cache", "force_full_sync",
          "continuous"}

\* How the wipe of run_force_full_sync can end: done, or an exception in
\* one of its calls.
WipeOutcomes == {"ok", "initialize", "query1", "query2", "close"}

\* How generate_cache can end: done, or an exception in one of its calls.
CacheOutcomes == {"ok", "initialize", "build", "write", "close"}

\* generate_cache: True, or False from its handler.
GenerateCache(outcome) == outcome = "ok"

Logged(step, out) == Append(cliLog, [step |-> step, out |-> out])

\* The process ends: the status of sys.exit, 0 without it.
Exits(status) ==
    /\ cliPc' = "exited"
    /\ cliExit' = status
    /\ cliAfter' = "none"

InitCli ==
    /\ cliMode = ""
    /\ cliPc = "parse"
    /\ cliLog = <<>>
    /\ cliAfter = "none"
    /\ cliExit = None

\* main: parse_args and the branch on the arguments.
Main ==
    /\ cliPc = "parse"
    /\ \E mode \in Modes :
          /\ cliMode' = mode
          /\ cliPc' = CASE mode = "generate_cache" -> "cache"
                        [] mode = "force_full_sync" -> "wipe"
                        [] OTHER -> "initialize"
    /\ UNCHANGED <<cliLog, cliAfter, cliExit>>
    /\ UNCHANGED notCli

\* run_force_full_sync, first part: the wipe; its handler logs and
\* returns, which ends the process without sys.exit.
Wipe ==
    /\ cliPc = "wipe"
    /\ \E outcome \in WipeOutcomes :
          /\ cliLog' = Logged("wipe:" \o outcome,
                               IF outcome = "ok" THEN "ok" ELSE "raise")
          /\ IF outcome = "ok"
             THEN cliPc' = "initialize" /\ UNCHANGED <<cliAfter, cliExit>>
             ELSE Exits(0)
    /\ UNCHANGED cliMode
    /\ UNCHANGED notCli

\* sync_service.initialize(): in show_status inside the try whose handler
\* logs; in the sync modes inside try/finally.
Initialize ==
    /\ cliPc = "initialize"
    /\ \E out \in {"ok", "raise"} :
          /\ cliLog' = Logged("initialize", out)
          /\ IF cliMode = "status"
             THEN IF out = "ok"
                  THEN cliPc' = "stats" /\ UNCHANGED <<cliAfter, cliExit>>
                  ELSE Exits(0)
             ELSE IF out = "ok"
                  THEN cliPc' = "sync" /\ UNCHANGED <<cliAfter, cliExit>>
                  ELSE cliPc' = "stop" /\ cliAfter' = "raise" /\ UNCHANGED cliExit
    /\ UNCHANGED cliMode
    /\ UNCHANGED notCli

\* show_status: sync_service.get_stats()
GetStats ==
    /\ cliPc = "stats"
    /\ \E out \in {"ok", "raise"} :
          /\ cliLog' = Logged("stats", out)
          /\ IF out = "ok"
             THEN cliPc' = "stop" /\ UNCHANGED <<cliAfter, cliExit>>
             ELSE Exits(0)
    /\ UNCHANGED cliMode
    /\ UNCHANGED notCli

\* sync_service.run_manual_sync(): True, False (then sys.exit(1)) or an
\* exception; in the loop of run_continuous_sync False is logged and an
\* exception is handled, and the loop sleeps.
RunManualSync ==
    /\ cliPc = "sync"
    /\ \E out \in {"True", "False", "raise"} :
          /\ cliLog' = Logged("sync", out)
          /\ IF out = "True"
             THEN cliPc' = "cache" /\ UNCHANGED cliAfter
             ELSE IF cliMode = "continuous"
             THEN cliPc' = "sleep" /\ UNCHANGED cliAfter
             ELSE /\ cliPc' = "stop"
                  /\ cliAfter' = IF out = "False" THEN "exit1" ELSE "raise"
    /\ UNCHANGED <<cliMode, cliExit>>
    /\ UNCHANGED notCli

\* generate_cache(): its result is dropped by every caller.
CallGenerateCache ==
    /\ cliPc = "cache"
    /\ \E outcome \in CacheOutcomes :
          /\ cliLog' = Logged("cache:" \o outcome,
                               IF GenerateCache(outcome) THEN "True" ELSE "False")
          /\ IF cliMode = "generate_cache"
             THEN Exits(0)
             ELSE /\ cliPc' = IF cliMode = "continuous" THEN "sleep" ELSE "stop"
                  /\ UNCHANGED <<cliAfter, cliExit>>
    /\ UNCHANGED cliMode
    /\ UNCHANGED notCli

\* run_continuous_sync: asyncio.sleep between two cycles of the loop.
CyclesDone == Cardinality({i \in 1..Len(cliLog) : cliLog[i].step = "sleep"})

SleepUntilNextCycle ==
    /\ cliPc = "sleep"
    /\ CyclesDone < MaxCycles
    /\ cliLog' = Logged("sleep", "ok")
    /\ cliPc' = "sync"
    /\ UNCHANGED <<cliMode, cliAfter, cliExit>>
    /\ UNCHANGED notCli

\* sync_service.stop(): in the finally of the sync modes, after which
\* SystemExit or the exception goes on to main (whose handler exits 1);
\* in show_status inside the try.
Stop ==
    /\ cliPc = "stop"
    /\ \E out \in {"ok", "raise"} :
          /\ cliLog' = Logged("stop", out)
          /\ IF cliMode = "status"
             THEN Exits(0)
             ELSE Exits(IF out = "raise" \/ cliAfter # "none" THEN 1 ELSE 0)
    /\ UNCHANGED cliMode
    /\ UNCHANGED notCli

(***************************************************************************)
(* WeChatGraphitiClient.add_graphiti_episodes_bulk on an initialized       *)
(* client, with episodes that are dicts with string names.                 *)
(***************************************************************************)

NoResult == [success |-> FALSE, total_episodes |-> 0, errors |-> <<>>]

\* `if len(errors) > 10: break`
TooManyFailuresFromTen(errors) == Len(errors) >= MaxFailures

TooManyFailures(errors) == Len(errors) > MaxFailures

InitEpIdle ==
    /\ epLen = 0
    /\ epI = 0
    /\ epSucc = 0
    /\ epErrors = <<>>
    /\ epAdds = <<>>
    /\ epPc = "returned"
    /\ epResult = NoResult

InitEp ==
    /\ epLen \in 0..MaxEpisodes
    /\ epI = 0
    /\ epSucc = 0
    /\ epErrors = <<>>
    /\ epAdds = <<>>
    /\ epPc = "loop"
    /\ epResult = NoResult

\* One turn of the loop: add_episode for the next episode returns or
\* raises; after a failure the loop is left when there are too many.
AddEpisode ==
    /\ epPc = "loop"
    /\ epI < epLen
    /\ \E added \in BOOLEAN :
          /\ epAdds' = Append(epAdds, [index |-> epI + 1, added |-> added])
          /\ epI' = epI + 1
          /\ IF added
             THEN /\ epSucc' = epSucc + 1
                  /\ UNCHANGED epErrors
                  /\ epPc' = "loop"
             ELSE /\ epErrors' = Append(epErrors, epI + 1)
                  /\ UNCHANGED epSucc
                  /\ epPc' = IF TooManyFailures(epErrors') THEN "return"
                             ELSE "loop"
    /\ UNCHANGED <<epLen, epResult>>
    /\ UNCHANGED notEp

\* The loop is over (by exhaustion or by break): the result is built.
ReturnEpisodeResult ==
    /\ epPc = "return" \/ (epPc = "loop" /\ epI = epLen)
    /\ epResult' = [success |-> Len(epErrors) = 0,
                    total_episodes |-> epSucc,
                    errors |-> epErrors]
    /\ epPc' = "returned"
    /\ UNCHANGED <<epLen, epI, epSucc, epErrors, epAdds>>
    /\ UNCHANGED notEp

(***************************************************************************)
(* The chat-resync script: WeChatSyncScript._sync_folder over              *)
(* WeChatDataProcessor.process_specific_files, and the ledger of           *)
(* processed files.                                                        *)
(***************************************************************************)

FileNames == {"a.json", "b.json"}

\* The entries of a file's "entities" list: an entity with a name, an
\* entity without one, or an entry that is not a dict.
NotADict == "#"
EntityItems == {"e1", "e2", "", NotADict}

\* What a file holds: text json.load rejects, or an "entities" list.
FileContents ==
    {[json |-> FALSE, entities |-> <<>>]} \cup
    {[json |-> TRUE, entities |-> es] : es \in SeqsUpTo(EntityItems, MaxEntities)}

\* _get_processed_files: the set of the ledger's lines.
GetProcessedFiles(ledger) == {ledger[k] : k \in 1..Len(ledger)}

MarkFileProcessedNot(ledger, filename) == ledger

\* _mark_file_processed
MarkFileProcessed(ledger, filename) ==
    IF filename \in GetProcessedFiles(ledger) THEN ledger
    ELSE Append(ledger, filename)

\* _generate_episode_id: the MD5 of "entity_" + name, one id per name.
GenerateEpisodeId(name) == name

\* _convert_json_to_episodes from the k-th entity on: _create_entity_episode
\* for each entity (None without a name, None for an id already in the
\* set, which it extends otherwise); entity.get raises on an entry that is
\* not a dict, and the ids added before stay in the set.
RECURSIVE ConvertFrom(_, _, _, _)
ConvertFrom(entities, k, seen, names) ==
    IF k > Len(entities) THEN [names |-> names, seen |-> seen, raised |-> FALSE]
    ELSE IF entities[k] = NotADict
    THEN [names |-> <<>>, seen |-> seen, raised |-> TRUE]
    ELSE IF entities[k] = "" \/ GenerateEpisodeId(entities[k]) \in seen
    THEN ConvertFrom(entities, k + 1, seen, names)
    ELSE ConvertFrom(entities, k + 1,
                     seen \cup {GenerateEpisodeId(entities[k])},
                     Append(names, entities[k]))

\* The orders in which glob can list a set of files.
OrdersOf(S) ==
    {l \in SeqsUpTo(S, Cardinality(S)) :
        Len(l) = Cardinality(S) /\ {l[k] : k \in 1..Len(l)} = S}

InitWxIdle ==
    /\ wxFiles = [f \in FileNames |-> [json |-> FALSE, entities |-> <<>>]]
    /\ wxLedger = <<>>
    /\ wxForce = FALSE
    /\ wxList = <<>>
    /\ wxI = 0
    /\ wxSeen = {}
    /\ wxEpisodes = <<>>
    /\ wxProcessed = <<>>
    /\ wxPc = "idle"
    /\ wxRuns = 0

InitWx ==
    /\ wxFiles \in [FileNames -> FileContents]
    /\ wxLedger = <<>>
    /\ wxForce = FALSE
    /\ wxList = <<>>
    /\ wxI = 0
    /\ wxSeen = {}
    /\ wxEpisodes = <<>>
    /\ wxProcessed = <<>>
    /\ wxPc = "idle"
    /\ wxRuns = 0

\* _sync_folder up to the first file: the glob, the filter of an
\* incremental run, the return when nothing is left, the client's
\* initialize() (which may raise), and the start of
\* process_specific_files, which clears the set of ids.
SyncFolder ==
    /\ wxPc = "idle"
    /\ wxRuns < MaxRuns
    /\ wxRuns' = wxRuns + 1
    /\ \E force \in BOOLEAN, initialized \in BOOLEAN :
       \E files \in OrdersOf(IF force THEN FileNames
                             ELSE FileNames \ GetProcessedFiles(wxLedger)) :
          /\ wxForce' = force
          /\ wxList' = files
          /\ wxI' = 0
          /\ wxEpisodes' = <<>>
          /\ wxProcessed' = <<>>
          /\ IF files # <<>> /\ initialized
             THEN wxSeen' = {} /\ wxPc' = "process"
             ELSE wxSeen' = wxSeen /\ wxPc' = "idle"
    /\ UNCHANGED <<wxFiles, wxLedger>>
    /\ UNCHANGED notWx

\* One turn of the loop of process_specific_files: json.load, the
\* conversion, the callback that marks the file; an exception of the
\* first two is logged.  After the last file _sync_folder goes to the
\* store step, or returns when there are no episodes.
ProcessFile ==
    /\ wxPc = "process"
    /\ LET f == wxList[wxI + 1]
           r == ConvertFrom(wxFiles[f].entities, 1, wxSeen, <<>>)
           done == wxFiles[f].json /\ ~r.raised
           eps == IF done
                  THEN wxEpisodes \o [k \in 1..Len(r.names) |->
                                        [name |-> r.names[k], file |-> f]]
                  ELSE wxEpisodes
       IN /\ wxSeen' = IF wxFiles[f].json THEN r.seen ELSE wxSeen
          /\ wxEpisodes' = eps
          /\ wxProcessed' = IF done THEN Append(wxProcessed, f) ELSE wxProcessed
          /\ wxLedger' = IF done THEN MarkFileProcessed(wxLedger, f) ELSE wxLedger
          /\ wxI' = wxI + 1
          /\ wxPc' = IF wxI + 1 < Len(wxList) THEN "process"
                     ELSE IF eps = <<>> THEN "idle" ELSE "store"
    /\ UNCHANGED <<wxFiles, wxForce, wxList, wxRuns>>
    /\ UNCHANGED notWx

\* add_graphiti_episodes_bulk returns, with success or not: the result's
\* processed_files is set, the ledger is left as it is.
StoreEpisodes ==
    /\ wxPc = "store"
    /\ \E success \in BOOLEAN :
          wxProcessed' = IF success THEN wxProcessed ELSE <<>>
    /\ wxPc' = "idle"
    /\ UNCHANGED <<wxFiles, wxLedger, wxForce, wxList, wxI, wxSeen,
                   wxEpisodes, wxRuns>>
    /\ UNCHANGED notWx

(***************************************************************************)
(* IntentSearchEngine._build_confidence_paths and _build_core_page_result: *)
(* from the evaluator's items to the core pages of the answer.             *)
(***************************************************************************)

\* The values an item's document_index can have: the evaluator's JSON is
\* taken as it comes (evaluations: List[Dict[str, Any]]).
IndexValues == (0 - MaxCands - 1)..(MaxCands + 1)

\* An evaluation item: a dict with or without the key document_index.
EvalItems ==
    {[confidence_score |-> ScoreOne]} \cup
    {[confidence_score |-> ScoreOne, document_index |-> k] : k \in IndexValues}

\* eval_item.get('document_index', 0)
GetDocumentIndex(item) ==
    IF "document_index" \in DOMAIN item THEN item.document_index ELSE 0

\* candidate_paths[i].get('leaf_id'): candidate i (from 0) is the path to
\* its own leaf.
LeafId(i) == [kind |-> "leaf", n |-> i]

\* f"dummy_page_{document_index}"
DummyPage(i) == [kind |-> "dummy", n |-> i]

\* list[i] of a list of n elements: a negative i counts from the end, and an
\* i outside -n..n-1 raises IndexError.
ListIndex(n, i) ==
    IF 0 <= i /\ i < n THEN [raised |-> FALSE, at |-> i]
    ELSE IF i < 0 /\ 0 - n <= i THEN [raised |-> FALSE, at |-> n + i]
    ELSE [raised |-> TRUE, at |-> 0]

\* _build_core_page_result: the page id comes from the candidate at
\* document_index when document_index < len(candidate_paths), else it is a
\* made-up one; a failed get_page_content changes the content only.
BuildCorePageResult(item, n, fetched) ==
    LET document_index == GetDocumentIndex(item)
    IN  IF document_index < n
        THEN LET got == ListIndex(n, document_index)
             IN  [raised |-> got.raised, notion_id |-> LeafId(got.at),
                  document_index |-> document_index, fetched |-> fetched]
        ELSE [raised |-> FALSE, notion_id |-> DummyPage(document_index),
              document_index |-> document_index, fetched |-> fetched]

InitCpIdle ==
    /\ cpCands = 0
    /\ cpEvals = <<>>
    /\ cpI = 0
    /\ cpPaths = <<>>
    /\ cpPc = "done"

InitCp ==
    /\ cpCands \in 1..MaxCands
    /\ cpEvals \in SeqsUpTo(EvalItems, MaxItems)
    /\ cpI = 0
    /\ cpPaths = <<>>
    /\ cpPc = "loop"

\* One turn of `for eval_item in high_confidence_evals`: the core page is
\* built and the related pages are fetched; an exception of either skips
\* the item.
TakeEvalItem ==
    /\ cpPc = "loop"
    /\ cpI < Len(cpEvals)
    /\ \E fetched, expanded \in BOOLEAN :
          LET core_page == BuildCorePageResult(cpEvals[cpI + 1], cpCands, fetched)
          IN  cpPaths' = IF core_page.raised \/ ~expanded
                         THEN cpPaths
                         ELSE Append(cpPaths, core_page)
    /\ cpI' = cpI + 1
    /\ UNCHANGED <<cpCands, cpEvals, cpPc>>
    /\ UNCHANGED notCp

\* return confidence_paths
ReturnConfidencePaths ==
    /\ cpPc = "loop"
    /\ cpI = Len(cpEvals)
    /\ cpPc' = "done"
    /\ UNCHANGED <<cpCands, cpEvals, cpI, cpPaths>>
    /\ UNCHANGED notCp

(***************************************************************************)
(* Specifications.                                                         *)
(***************************************************************************)
Init == InitSync /\ InitPolicyIdle /\ InitAuthIdle /\ InitCache /\ InitPathsIdle /\ InitStore /\ InitUpdIdle /\ InitRate /\ InitTrunc /\ InitSelIdle /\ InitSchIdle /\ InitCt /\ InitCli /\ InitEpIdle /\ InitWxIdle /\ InitCpIdle

Next ==
    \/ Tick
    \/ EditPage
    \/ Restart
    \/ StartCycle
    \/ CheckHealth
    \/ DecidePolicy
    \/ WipeGraph
    \/ Scan
    \/ UpdateGraph
    \/ StampTimes
    \/ ReturnCycle

Spec == Init /\ [][Next]_vars

InitPolicy ==
    /\ InitSyncIdle
    /\ InitAuthIdle
    /\ InitCache
    /\ InitPathsIdle
    /\ InitStore
    /\ InitUpdIdle
    /\ polIn \in [countFails : BOOLEAN, pageCount : 0..MaxPolicyPages,
                   readFails : BOOLEAN, recorded : PolicyRecorded,
                   nowMin : 0..MaxPolicyNow]
    /\ polOut = "none"
    /\ InitRate
    /\ InitTrunc
    /\ InitSelIdle
    /\ InitSchIdle
    /\ InitCt
    /\ InitCli
    /\ InitEpIdle
    /\ InitWxIdle
    /\ InitCpIdle

NextPolicy == EvalPolicy

SpecPolicy == InitPolicy /\ [][NextPolicy]_vars

NextAuth == IntentSearchTool

AuthInit ==
    /\ InitSyncIdle /\ InitPolicyIdle /\ InitCache /\ InitPathsIdle
    /\ InitStore /\ InitUpdIdle
    /\ InitAuth
    /\ InitRate
    /\ InitTrunc
    /\ InitSelIdle
    /\ InitSchIdle
    /\ InitCt
    /\ InitCli
    /\ InitEpIdle
    /\ InitWxIdle
    /\ InitCpIdle

SpecAuth == AuthInit /\ [][NextAuth]_vars

NextCache ==
    \/ \E w \in Writers : BuildCacheData(w)
    \/ \E w \in Writers : OpenTemp(w)
    \/ \E w \in Writers : WriteChunk(w)
    \/ \E w \in Writers : ReplaceCache(w)
    \/ ReadCache

CacheInit ==
    /\ InitSyncIdle /\ InitPolicyIdle /\ InitAuthIdle /\ InitPathsIdle
    /\ InitStore /\ InitUpdIdle
    /\ InitCache
    /\ InitRate
    /\ InitTrunc
    /\ InitSelIdle
    /\ InitSchIdle
    /\ InitCt
    /\ InitCli
    /\ InitEpIdle
    /\ InitWxIdle
    /\ InitCpIdle

SpecCache == CacheInit /\ [][NextCache]_vars

NextPaths == FindLeaves \/ WalkUp \/ AppendPath

PathsInit ==
    /\ InitSyncIdle /\ InitPolicyIdle /\ InitAuthIdle /\ InitCache
    /\ InitStore /\ InitUpdIdle
    /\ InitPaths
    /\ InitRate
    /\ InitTrunc
    /\ InitSelIdle
    /\ InitSchIdle
    /\ InitCt
    /\ InitCli
    /\ InitEpIdle
    /\ InitWxIdle
    /\ InitCpIdle

SpecPaths == PathsInit /\ [][NextPaths]_vars

PathsAnyInit ==
    /\ InitSyncIdle /\ InitPolicyIdle /\ InitAuthIdle /\ InitCache
    /\ InitStore /\ InitUpdIdle
    /\ InitPathsAny
    /\ InitRate
    /\ InitTrunc
    /\ InitSelIdle
    /\ InitSchIdle
    /\ InitCt
    /\ InitCli
    /\ InitEpIdle
    /\ InitWxIdle
    /\ InitCpIdle

SpecPathsAny == PathsAnyInit /\ [][NextPaths]_vars

NextStore == CallUpsertPage \/ CallCreateRelationships

StoreInit ==
    /\ InitSyncIdle /\ InitPolicyIdle /\ InitAuthIdle /\ InitCache
    /\ InitPathsIdle /\ InitUpdIdle
    /\ InitStore
    /\ InitRate
    /\ InitTrunc
    /\ InitSelIdle
    /\ InitSchIdle
    /\ InitCt
    /\ InitCli
    /\ InitEpIdle
    /\ InitWxIdle
    /\ InitCpIdle

SpecStore == StoreInit /\ [][NextStore]_vars

NextUpd ==
    \/ ProcessBatch
    \/ \E p \in GraphPages : TaskPageExists(p)
    \/ \E p \in GraphPages : TaskUpsertPage(p)
    \/ SecondPasses
    \/ \E p \in GraphPages : TaskWake(p)
    \/ \E p \in GraphPages : TaskCreateRelationships(p)
    \/ GatherResults
    \/ ReturnReport

UpdInit ==
    /\ InitSyncIdle /\ InitPolicyIdle /\ InitAuthIdle /\ InitCache
    /\ InitPathsIdle
    /\ InitUpd
    /\ InitRate
    /\ InitTrunc
    /\ InitSelIdle
    /\ InitSchIdle
    /\ InitCt
    /\ InitCli
    /\ InitEpIdle
    /\ InitWxIdle
    /\ InitCpIdle

SpecUpd == UpdInit /\ [][NextUpd]_vars

NextRate ==
    \/ ClockTick
    \/ \E c \in Coroutines : RateLimitWait(c)
    \/ \E c \in Coroutines : SleepReturns(c)

RateInit ==
    /\ InitSyncIdle /\ InitPolicyIdle /\ InitAuthIdle /\ InitCache
    /\ InitPathsIdle /\ InitStore /\ InitUpdIdle
    /\ InitRate
    /\ InitTrunc
    /\ InitSelIdle
    /\ InitSchIdle
    /\ InitCt
    /\ InitCli
    /\ InitEpIdle
    /\ InitWxIdle
    /\ InitCpIdle

SpecRate == RateInit /\ [][NextRate]_vars

NextTrunc ==
    \/ \E c \in PathCalls : EnterPathContents(c)
    \/ \E c \in PathCalls : PageFetched(c)
    \/ \E c \in PathCalls : CancelledAtFetch(c)
    \/ \E c \in PathCalls : NextRequest(c)

TruncInit ==
    /\ InitSyncIdle /\ InitPolicyIdle /\ InitAuthIdle /\ InitCache
    /\ InitPathsIdle /\ InitStore /\ InitUpdIdle /\ InitRate
    /\ InitTrunc
    /\ InitSelIdle
    /\ InitSchIdle
    /\ InitCt
    /\ InitCli
    /\ InitEpIdle
    /\ InitWxIdle
    /\ InitCpIdle

SpecTrunc == TruncInit /\ [][NextTrunc]_vars

NextSel == SearchByIntent

SelInit ==
    /\ InitSyncIdle /\ InitPolicyIdle /\ InitAuthIdle /\ InitCache
    /\ InitPathsIdle /\ InitStore /\ InitUpdIdle /\ InitRate /\ InitTrunc
    /\ InitSel
    /\ InitSchIdle
    /\ InitCt
    /\ InitCli
    /\ InitEpIdle
    /\ InitWxIdle
    /\ InitCpIdle

SpecSel == SelInit /\ [][NextSel]_vars

NextSch ==
    \/ SchedTick
    \/ SchedStart
    \/ SchedStop
    \/ LoopPoll
    \/ ExecuteSyncReturns
    \/ TriggerImmediateSync
    \/ ImmediateSyncReturns
    \/ Reschedule
    \/ Pause
    \/ Resume

SchInit ==
    /\ InitSyncIdle /\ InitPolicyIdle /\ InitAuthIdle /\ InitCache
    /\ InitPathsIdle /\ InitStore /\ InitUpdIdle /\ InitRate /\ InitTrunc
    /\ InitSelIdle
    /\ InitSch
    /\ InitCt
    /\ InitCli
    /\ InitEpIdle
    /\ InitWxIdle
    /\ InitCpIdle

SpecSch == SchInit /\ [][NextSch]_vars

NextCt ==
    \/ CallGetPageContent
    \/ ExtractorReturns
    \/ BasicInfoReturns

CtInit ==
    /\ InitSyncIdle /\ InitPolicyIdle /\ InitAuthIdle /\ InitCache
    /\ InitPathsIdle /\ InitStore /\ InitUpdIdle /\ InitRate /\ InitTrunc
    /\ InitSelIdle /\ InitSchIdle
    /\ InitCt
    /\ InitCli
    /\ InitEpIdle
    /\ InitWxIdle
    /\ InitCpIdle

SpecCt == CtInit /\ [][NextCt]_vars

NextCli ==
    \/ Main
    \/ Wipe
    \/ Initialize
    \/ GetStats
    \/ RunManualSync
    \/ CallGenerateCache
    \/ SleepUntilNextCycle
    \/ Stop

CliInit ==
    /\ InitSyncIdle /\ InitPolicyIdle /\ InitAuthIdle /\ InitCache
    /\ InitPathsIdle /\ InitStore /\ InitUpdIdle /\ InitRate /\ InitTrunc
    /\ InitSelIdle /\ InitSchIdle /\ InitCt
    /\ InitCli
    /\ InitEpIdle
    /\ InitWxIdle
    /\ InitCpIdle

SpecCli == CliInit /\ [][NextCli]_vars

NextEp ==
    \/ AddEpisode
    \/ ReturnEpisodeResult

EpInit ==
    /\ InitSyncIdle /\ InitPolicyIdle /\ InitAuthIdle /\ InitCache
    /\ InitPathsIdle /\ InitStore /\ InitUpdIdle /\ InitRate /\ InitTrunc
    /\ InitSelIdle /\ InitSchIdle /\ InitCt /\ InitCli
    /\ InitEp
    /\ InitWxIdle
    /\ InitCpIdle

SpecEp == EpInit /\ [][NextEp]_vars

NextWx ==
    \/ SyncFolder
    \/ ProcessFile
    \/ StoreEpisodes

WxInit ==
    /\ InitSyncIdle /\ InitPolicyIdle /\ InitAuthIdle /\ InitCache
    /\ InitPathsIdle /\ InitStore /\ InitUpdIdle /\ InitRate /\ InitTrunc
    /\ InitSelIdle /\ InitSchIdle /\ InitCt /\ InitCli /\ InitEpIdle
    /\ InitWx
    /\ InitCpIdle

SpecWx == WxInit /\ [][NextWx]_vars

NextCp == TakeEvalItem \/ ReturnConfidencePaths

CpInit ==
    /\ InitSyncIdle /\ InitPolicyIdle /\ InitAuthIdle /\ InitCache
    /\ InitPathsIdle /\ InitStore /\ InitUpdIdle /\ InitRate /\ InitTrunc
    /\ InitSelIdle
    /\ InitSchIdle
    /\ InitCt
    /\ InitCli
    /\ InitEpIdle
    /\ InitWxIdle
    /\ InitCp

SpecCp == CpInit /\ [][NextCp]_vars

(***************************************************************************)
(* Claims about the sync cycle (checked under Spec).                       *)
(***************************************************************************)

\* The scan of the running cycle is over.
Scanned == "scan" \in did

\* C1: every incremental cycle hands to the graph updater every page whose
\* last_edited_time is strictly later than the last_sync_time the cycle read,
\* whether or not an earlier cycle of the same process returned that page.
\* Stated for scans that did not fail and lost no page to a metadata
\* extraction error.
C1_IncrementalHandsEveryEditedPage ==
    (Scanned /\ ~isFull /\ readSync # None /\ extracted = matched)
        => matched \subseteq handed

\* C2: after every full-sync cycle that returns success, first or later cycle
\* of the process, the NotionPage ids in the graph are the pages the source
\* returned for the unfiltered scan whose extraction and upsert succeeded.
C2_FullSyncGraphEqualsSource ==
    (pc = "done" /\ result = "ok" /\ isFull)
        => graph = extracted \ upFailed

\* C4 as claimed: last_sync_time is stamped afresh at the end of every cycle
\* that returns success and only then, last_full_sync_time at the end of
\* every successful full-sync cycle and only then, and a failing cycle
\* stamps neither.
C4_StampedOnEverySuccess ==
    [][ /\ (pc = "stamp" /\ pc' = "done")
              => (lastSync' = now /\ (isFull => lastFull' = now))
        /\ (lastSync' # lastSync /\ lastSync' # None)
              => (pc = "stamp" /\ result' = "ok")
        /\ (lastFull' # lastFull /\ lastFull' # None)
              => (pc = "stamp" /\ result' = "ok" /\ isFull)
        /\ (pc' = "done" /\ result' = "fail")
              => (lastSync' = syncAtStart /\ lastFull' = fullAtStart)
      ]_vars

\* C4 amended: a timestamp takes a fresh value only in the stamping step of
\* a cycle that returns success (last_full_sync_time only of a full-sync
\* one); that step sets each timestamp whose database write succeeds to the
\* current time and leaves one whose write fails as it was; a cycle that
\* returns failure leaves both as they were when it started.
C4_StampsOnlyOnSuccess ==
    [][ /\ (pc = "stamp" /\ pc' = "done")
              => /\ result' = "ok"
                 /\ lastSync' = (IF "sync" \in dbOk' THEN now ELSE lastSync)
                 /\ lastFull' = (IF "full" \in dbOk' THEN now ELSE lastFull)
                 /\ ("full" \in dbOk' => isFull)
        /\ (lastSync' # lastSync /\ lastSync' # None)
              => (pc = "stamp" /\ result' = "ok")
        /\ (lastFull' # lastFull /\ lastFull' # None)
              => (pc = "stamp" /\ result' = "ok" /\ isFull)
        /\ (pc' = "done" /\ result' = "fail")
              => (lastSync' = syncAtStart /\ lastFull' = fullAtStart)
      ]_vars

\* A successful full-sync cycle whose last_sync_time write failed while its
\* last_full_sync_time write went through.
C4_Witness ==
    /\ pc = "done" /\ result = "ok" /\ isFull
    /\ dbOk = {"full"}
    /\ lastSync = None /\ lastFull # None
    /\ graph # {}

\* C5: when the health check of the content source or of the graph database
\* fails or raises, the cycle returns False having made no policy query, no
\* deletion, no scan, no graph write and no timestamp update.
C5_HealthGate ==
    (healthN \in {"false", "raise"} \/ healthG \in {"false", "raise"})
        => /\ pc = "done" /\ result = "fail"
           /\ did = {}
           /\ handed = {}
           /\ graph = graphAtStart
           /\ lastSync = syncAtStart
           /\ lastFull = fullAtStart

\* A cycle stopped by the graph database's health check alone, on a graph
\* that holds pages and timestamps.
C5_Witness ==
    /\ healthN = "ok" /\ healthG = "false"
    /\ pc = "done" /\ result = "fail"
    /\ graph # {} /\ lastSync # None

(***************************************************************************)
(* Claims about _should_do_full_sync (checked under SpecPolicy).           *)
(***************************************************************************)
PolElapsed == polIn.nowMin - polIn.recorded

\* Minute of the day in UTC+8.
PolBeijingMinuteOfDay == (polIn.nowMin + 8 * MinutesPerHour) % MinutesPerDay

\* The four conditions of the policy on the state it reads.
PolStatedConditions ==
    \/ polIn.pageCount = 0
    \/ polIn.recorded = None
    \/ PolElapsed >= 3 * MinutesPerDay
    \/ /\ PolElapsed >= MinutesPerDay
       /\ PolBeijingMinuteOfDay >= 4 * MinutesPerHour
       /\ PolBeijingMinuteOfDay < 4 * MinutesPerHour + 30

AuthEnforced == authCfg.enable_auth /\ authCfg.hasKey /\ authCfg.key # ""

Rejected == ~authRan /\ authResp = [success |-> FALSE, paths |-> 0]

\* The header is exactly 'Bearer <key>': the scheme, one space, the key.
ExactBearer ==
    authHdr.present /\ Flatten(authHdr.pieces) = "Bearer " \o authCfg.key

AllSpaces(ps) == \A i \in 1..Len(ps) : IsSpace(ps[i])
NoSpaces(ps) == \A i \in 1..Len(ps) : ~IsSpace(ps[i])

\* The header is the word 'Bearer' and the word <key>, with whitespace
\* between them and possibly more whitespace anywhere around them.
SpacedBearer ==
    /\ authHdr.present
    /\ LET ps == authHdr.pieces
           n  == Len(ps)
       IN  \E a \in 0..n, b \in 0..n, c \in 0..n, d \in 0..n :
              /\ a < b /\ b < c /\ c < d
              /\ AllSpaces(SubSeq(ps, 1, a))
              /\ NoSpaces(SubSeq(ps, a + 1, b))
              /\ Flatten(SubSeq(ps, a + 1, b)) = "Bearer"
              /\ AllSpaces(SubSeq(ps, b + 1, c))
              /\ NoSpaces(SubSeq(ps, c + 1, d))
              /\ Flatten(SubSeq(ps, c + 1, d)) = authCfg.key
              /\ AllSpaces(SubSeq(ps, d + 1, n))

\* C6 as claimed: with auth enabled and a key configured, the pipeline is
\* invoked only for a request whose Authorization header is exactly
\* 'Bearer <key>', and every other request is answered success=false with
\* no paths and without the pipeline; with auth disabled or no key, every
\* request proceeds to the pipeline.
C6_PipelineOnlyForExactBearer ==
    authPc = "replied"
        => IF AuthEnforced
           THEN (authRan => ExactBearer) /\ (~ExactBearer => Rejected)
           ELSE authRan

\* C6 amended: with auth enabled and a key configured, the pipeline is
\* invoked exactly for the requests whose Authorization header splits on
\* whitespace into the two words 'Bearer' and the configured key, so also
\* with extra whitespace between or around them; every other request is
\* answered success=false with no paths and without the pipeline; with auth
\* disabled or no key, every request proceeds to the pipeline.
C6_PipelineOnlyForBearerWords ==
    authPc = "replied"
        => IF AuthEnforced
           THEN (authRan <=> SpacedBearer) /\ (~SpacedBearer => Rejected)
           ELSE authRan

\* An enforced gate let through a header with two spaces after the scheme.
C6_Witness ==
    /\ authPc = "replied" /\ authRan
    /\ AuthEnforced /\ authCfg.key = "k"
    /\ authHdr.pieces = <<"Bearer", " ", " ", "k">>

(***************************************************************************)
(* Claims about the cache file (checked under SpecCache).                  *)
(***************************************************************************)
IsCompleteJson(data) == \E g \in 1..MaxGens : data = CompleteJson(g)

\* C7: at every instant, under any interleaving of cache generations (two
\* may run at once) with readers, the file at the cache path is absent or
\* holds the complete JSON of one single generation, and a reader never
\* gets a partial or mixed text.
C7_CacheAbsentOrComplete ==
    /\ fsCache = 0 \/ IsCompleteJson(fsData[fsCache])
    /\ cacheSeen.absent \/ IsCompleteJson(cacheSeen.data)

(***************************************************************************)
(* Claims about _build_paths (checked under SpecPaths).                    *)
(***************************************************************************)

\* A root: a page of the map whose parent_id is None or names no page of
\* the map.
IsRootPage(p) == p \in pmKeys /\ (pmParent[p] = 0 \/ pmParent[p] \notin pmKeys)

\* The titles from the root above p down to p, joined by " -> ", built
\* from the root downwards.
RECURSIVE TitlesDownTo(_)
TitlesDownTo(p) ==
    IF IsRootPage(p) THEN pmTitle[p]
    ELSE TitlesDownTo(pmParent[p]) \o " -> " \o pmTitle[p]

PathIsRootToLeaf(path) ==
    LET ids == path.path_ids
        n   == Len(ids)
    IN  /\ n >= 1
        /\ IsRootPage(ids[1])
        /\ ids[n] = path.leaf_id
        /\ \A i \in 1..(n - 1) : pmParent[ids[i + 1]] = ids[i]
        /\ path.path_length = n - 1
        /\ path.path_string = TitlesDownTo(path.leaf_id)

\* C8: for every pages map that is a forest, _build_paths yields exactly one
\* path per leaf page; its path_ids run from a root down to the leaf, each
\* consecutive pair parent and child, path_length is len(path_ids) - 1 and
\* path_string is the titles in that order joined by " -> ".
C8_OnePathPerLeaf ==
    bpPc = "done"
        => /\ Len(bpPaths) = Cardinality(LeafNodes)
           /\ {bpPaths[i].leaf_id : i \in 1..Len(bpPaths)} = LeafNodes
           /\ \A i \in 1..Len(bpPaths) : PathIsRootToLeaf(bpPaths[i])

\* The paths of a map with several leaves, one of them two levels below its
\* root, have been built.
C8_Witness ==
    /\ bpPc = "done"
    /\ Len(bpPaths) >= 2
    /\ \E i \in 1..Len(bpPaths) :
          /\ bpPaths[i].path_length = 2
          /\ bpPaths[i].path_string = "A -> B -> A"

(***************************************************************************)
(* Claims about the CHILD_OF edges (checked under SpecStore).              *)
(***************************************************************************)

OutEdges(p) == {e \in gChildOf : e[1] = p}

\* The page's node is written and the last call for it was a successful
\* create_relationships with the parent_id the node carries.
Settled(p) ==
    /\ p \in gNodes
    /\ gLast[p].op = "rel"
    /\ gLast[p].parent = gParentId[p]

\* C9: after any sequence of upsert_page and create_relationships calls,
\* re-syncing a page whose parent_id changed included, every page has at most
\* one outgoing CHILD_OF edge and that edge points to the page's current
\* parent (stated for the pages whose relationships have been created for
\* the parent_id last written).
C9_OneEdgeToCurrentParent ==
    \A p \in GraphPages :
        Settled(p) => /\ Cardinality(OutEdges(p)) <= 1
                      /\ \A e \in OutEdges(p) : e[2] = gParentId[p]

(***************************************************************************)
(* Claims about update_graph (checked under SpecUpd).                      *)
(***************************************************************************)

ListedPages == {upPages[k] : k \in 1..Len(upPages)}

\* The pages whose upsert failed on every one of the MaxRetries attempts.
FailedPages == {p \in ListedPages : upTask[p].failures = MaxRetries}

ErrorEntries(p) == {k \in 1..Len(upReport.errors) : upReport.errors[k] = p}

\* C10: in update_graph a page that fails on all attempts never prevents
\* another page from being processed: every other page, of the same batch
\* and of the later batches, is still upserted, the report has exactly one
\* error entry per failed page, and the status is "completed_with_errors"
\* exactly when a page failed, "completed" otherwise.
C10_FailureIsolated ==
    upPc = "done"
        => /\ \A p \in ListedPages \ FailedPages :
                 /\ upTask[p].upserts = 1
                 /\ p \in gNodes
                 /\ ErrorEntries(p) = {}
           /\ \A p \in FailedPages : Cardinality(ErrorEntries(p)) = 1
           /\ Len(upReport.errors) = Cardinality(FailedPages)
           /\ upReport.status = IF FailedPages # {}
                                THEN "completed_with_errors" ELSE "completed"

\* The first page of the list failed on all its attempts, and its
\* batch-mate and the page of the next batch were upserted.
C10_Witness ==
    /\ upPc = "done"
    /\ Len(upPages) = 3
    /\ FailedPages = {upPages[1]}
    /\ upTask[upPages[2]].upserts = 1
    /\ upTask[upPages[3]].upserts = 1
    /\ upReport.status = "completed_with_errors"

(***************************************************************************)
(* Claims about the retries of _process_single_page (checked under         *)
(* SpecUpd).                                                               *)
(***************************************************************************)

\* The upsert attempts page p's task has issued so far.
AttemptsIssued(p) == upTask[p].failures + upTask[p].upserts

\* C11: for each page, _process_single_page issues at most 3 upsert
\* attempts; attempt k+1 starts only after attempt k has failed and a wait
\* of retry_delay x k (1 s, then 2 s) has elapsed; no attempt follows a
\* success; after the third failure the error is raised to the batch with
\* no further wait.
C11_RetriesWithBackoff ==
    \A p \in GraphPages :
        LET t == upTask[p]
        IN  /\ AttemptsIssued(p) <= MaxRetries
            /\ t.upserts <= 1
            /\ t.upserts = 1 <=> t.pc \in {"rel", "ok"}
            /\ t.pc = "sleep" => t.failures < MaxRetries
            /\ t.pc = "raised" <=> t.failures = MaxRetries
            /\ upPc = "gather" /\ InBatch(p)
                  => /\ t.pc # "sleep"
                           => /\ Len(t.waited) = t.attempt
                              /\ \A k \in 1..t.attempt :
                                    t.waited[k] = RetryDelay * k
                     /\ t.pc \in {"exists", "upsert"} => t.failures = t.attempt
                     /\ t.pc = "raised" => Len(t.waited) = MaxRetries - 1

\* A page failed three times, after waits of 1 s and 2 s, and another page
\* of its batch was upserted on its second attempt.
C11_Witness ==
    \E p, q \in GraphPages :
        /\ upPc = "gather"
        /\ upTask[p].pc = "raised"
        /\ upTask[p].waited = <<RetryDelay, 2 * RetryDelay>>
        /\ upTask[q].pc = "ok"
        /\ upTask[q].waited = <<RetryDelay>>

(***************************************************************************)
(* Claims about _rate_limit_wait (checked under SpecRate).                 *)
(***************************************************************************)

\* C12: for one NotionExtractor instance, any two requests that pass
\* through _rate_limit_wait are released at least 1/rate seconds apart, for
\* back-to-back sequential calls and for calls of coroutines that overlap.
C12_ReleasesSpaced == rlGap = None \/ rlGap >= MinInterval

(***************************************************************************)
(* Claims about get_path_contents_async (checked under SpecTrunc).         *)
(***************************************************************************)

\* Some call has been made and no call is still running.
AllCallsOver ==
    /\ \E c \in PathCalls : gpCall[c].pc \in {"returned", "raised"}
    /\ \A c \in PathCalls : gpCall[c].pc # "await"

\* C13: once every call to get_path_contents_async has returned, normally
\* or through an exception, calls that overlap with different
\* max_file_content_length values included, file_extractor.max_content_length
\* equals the value it had before the first of those calls started.
C13_ThresholdRestored == AllCallsOver => feMax = feBefore

(***************************************************************************)
(* Claims about the selection of paths (checked under SpecSel).            *)
(***************************************************************************)

SelThreshold == KwargsGet(selKwargs, "confidence_threshold", 7)

\* The items of the evaluation that meet the threshold.
MeetingThreshold == {i \in 1..Len(selEvals) : selEvals[i] >= SelThreshold}

\* Every score of the evaluation is a valid score.
ScoresInRange == \A i \in 1..Len(selEvals) : CorePageBuilt(selEvals[i])

\* C14: for every intent-search tool call the response holds
\* min(search_results, number of candidate paths meeting the threshold)
\* paths, never more than search_results (stated for evaluations whose
\* scores are all valid).
C14_SearchResultsGoverns ==
    selPc = "done" /\ "search_results" \in DOMAIN selKwargs /\ ScoresInRange
        => selPaths = Min(selKwargs["search_results"],
                          Cardinality(MeetingThreshold))

SelMaxResults == KwargsGet(selKwargs, "max_results", 2)

\* The items meeting the threshold that come before item i in descending
\* score order (an equal score earlier in the list comes first).
RankedBefore(i) ==
    {j \in MeetingThreshold :
        selEvals[j] > selEvals[i] \/ (selEvals[j] = selEvals[i] /\ j < i)}

TopScoring ==
    {i \in MeetingThreshold : Cardinality(RankedBefore(i)) < SelMaxResults}

KeptItems == {selKept[k] : k \in 1..Len(selKept)}

\* The kept items are distinct and in descending score order.
KeptDescending ==
    \A k, l \in 1..Len(selKept) :
        k < l => selKept[k] \in RankedBefore(selKept[l])

C16_NoScheduledSyncWhilePaused ==
    [][schPaused /\ schRunning /\ schLoop.pc # "sync" => schLoop'.pc # "sync"]_vars

\* C17: on a started scheduler pause() leaves the polling loop alive, so
\* that after a later resume() a scheduled sync fires again: while
\* is_running is true the loop task has not ended.
C17_LoopAliveWhileRunning ==
    schRunning => schLoop.pc \in {"poll", "sync"}

(***************************************************************************)
(* Claims about get_page_content (checked under SpecCt).                   *)
(***************************************************************************)

\* C18: when the content fetch for a page fails with object-not-found or
\* not-shared-with-the-integration, NotionClient.get_page_content returns
\* the guidance text for that failure, not the "page has no content" text.
C18_GuidanceOnNotFound ==
    ctPc = "done" /\ ctReq.api \in {"not_found", "not_shared"}
        => ctResult = ClientExceptText(ctReq.api)

(***************************************************************************)
(* Claims about run_chimera.py (checked under SpecCli).                    *)
(***************************************************************************)

\* The operation of the mode failed: a call of it raised, the sync
\* returned False, or (in the cache mode) the cache was not generated.
OperationFailed ==
    \E i \in 1..Len(cliLog) :
        \/ cliLog[i].out = "raise"
        \/ cliLog[i].step = "sync" /\ cliLog[i].out = "False"
        \/ cliMode = "generate_cache" /\ cliLog[i].out = "False"

\* C19: every mode exits with a non-zero status when its operation fails
\* and with zero when it succeeds: a failed cache generation, a failed
\* status query and a failed wipe of --force-full-sync included.
C19_ExitStatusTellsOutcome ==
    cliExit # None => (cliExit = 0 <=> ~OperationFailed)

(***************************************************************************)
(* Claims about add_graphiti_episodes_bulk (checked under SpecEp).         *)
(***************************************************************************)

FailedAdds == {k \in 1..Len(epAdds) : ~epAdds[k].added}

SuccessfulAdds == {k \in 1..Len(epAdds) : epAdds[k].added}

Converts(f) ==
    /\ wxFiles[f].json
    /\ \A k \in 1..Len(wxFiles[f].entities) : wxFiles[f].entities[k] # NotADict

TakenFiles == {wxList[k] : k \in 1..wxI}

NamesIn(f) ==
    IF Converts(f)
    THEN {wxFiles[f].entities[k] : k \in 1..Len(wxFiles[f].entities)}
             \ {"", NotADict}
    ELSE {}

\* The first file of the run's list that holds the name.
FirstFileWith(n) ==
    wxList[CHOOSE k \in 1..Len(wxList) :
              /\ n \in NamesIn(wxList[k])
              /\ \A j \in 1..(k - 1) : n \notin NamesIn(wxList[j])]

EpisodesOf(n) == {k \in 1..Len(wxEpisodes) : wxEpisodes[k].name = n}

\* C22: when a run has gone through its list, each entity name held by a
\* file of the list that parsed and converted has exactly one episode,
\* made from the first such file of the list; and the set of ids is empty
\* when a run starts on its first file.
C22_OneEpisodePerEntity ==
    /\ wxPc = "process" /\ wxI = 0 => wxSeen = {}
    /\ wxPc # "process" /\ wxList # <<>> /\ wxI = Len(wxList) =>
          \A f \in TakenFiles : \A n \in NamesIn(f) :
              /\ Cardinality(EpisodesOf(n)) = 1
              /\ \A k \in EpisodesOf(n) : wxEpisodes[k].file = FirstFileWith(n)

(***************************************************************************)
(* Claims about the edges left by update_graph (checked under SpecUpd).    *)
(***************************************************************************)

\* C23: when update_graph has finished with no errors, every page of the
\* list whose parent is also in the list has a CHILD_OF edge to that
\* parent, whatever the order of the list, the batches and the
\* interleaving of the tasks of a batch.
C23_ListedParentsLinked ==
    upPc = "done" /\ upReport.errors = <<>>
        => \A p \in ListedPages :
              upMeta[p] \in ListedPages => <<p, upMeta[p]>> \in gChildOf

(***************************************************************************)
(* Claims about edits and the stamp of last_sync_time (checked under       *)
(* Spec).                                                                  *)
(***************************************************************************)

\* The page was created or edited after the scan of the running cycle read
\* the page list: it is in the source with a time the scan's filter lets
\* through, and the scan did not see it.
EditedAfterScan(p) ==
    /\ edited[p] # None
    /\ p \notin matched
    /\ readSync = None \/ edited[p] > readSync

\* An incremental scan whose filter is the time t returns the page.
ReturnedAfter(p, t) == t = None \/ edited[p] > t

\* C24: no edit is lost to the timing of a cycle: when a cycle stamps
\* last_sync_time, a page edited after the cycle's scan read the page list
\* still has an edit time the stamp has not passed, so that a later
\* incremental cycle returns it.
C24_LateEditStillReturned ==
    [][pc = "stamp" /\ pc' = "done"
          => \A p \in Pages : EditedAfterScan(p) => ReturnedAfter(p, lastSync')]_vars

\* The pages the cycle should have applied and did not: those whose graph
\* update failed on all attempts, and those that met the scan's filter
\* when the scan failed and returned nothing.
NotApplied == upFailed \cup (IF extracted = {} THEN matched ELSE {})

\* C25: a page that should have been applied in a cycle and was not is not
\* skipped for good: the cycle's stamp of last_sync_time does not pass the
\* page's edit time, so that a later incremental cycle returns it.
C25_UnappliedStillReturned ==
    [][pc = "stamp" /\ pc' = "done"
          => \A p \in NotApplied : ReturnedAfter(p, lastSync')]_vars

(***************************************************************************)
(* Claims about the full-sync path (checked under Spec).                   *)
(***************************************************************************)

\* The full-sync cycle did not manage to reload the workspace: it returned
\* failure, or its scan returned nothing although the source has pages.
NotReloaded ==
    \/ result = "fail"
    \/ "scan" \in did /\ extracted = {} /\ matched # {}

\* C26: a full-sync cycle that does not manage to reload the workspace
\* leaves the pages that were indexed before it in the graph.
C26_FailedFullSyncKeepsIndex ==
    pc = "done" /\ isFull /\ NotReloaded => graphAtStart \subseteq graph

\* C27: an inability to read the graph's state never by itself sends the
\* cycle down the full-sync path, which deletes the indexed pages: the
\* cycle takes that path only when the policy holds of what the graph
\* actually records (its page count and its last_full_sync_time).
C27_FullSyncOnlyOnActualState ==
    [][pc = "policy" /\ pc' = "wipe"
          => ShouldDoFullSync(FALSE, Cardinality(graph), FALSE, lastFull, now)]_vars

(***************************************************************************)
(* Claims about _build_paths on any map (checked under SpecPathsAny).      *)
(***************************************************************************)
\* C28: _build_paths ends on every pages map, also one whose parent_id
\* pointers form a cycle above a leaf, and no path has more ids than the map
\* has pages: the path under construction never grows beyond the number of
\* pages (a walk that ends visits each page at most once), and no returned
\* path does.
C28_WalkStaysWithinMap ==
    /\ Len(bpIds) <= Cardinality(pmKeys)
    /\ \A i \in 1..Len(bpPaths) : Len(bpPaths[i].path_ids) <= Cardinality(pmKeys)

(***************************************************************************)
(* Claims about the confidence paths (checked under SpecCp).               *)
(***************************************************************************)
\* C29: every confidence path refers to an enumerated candidate: its core
\* page id is the leaf_id of candidate_paths[i], where i is the document_index
\* of its evaluation item and 0 <= i < len(candidate_paths), whatever the
\* evaluator's document_index values are.
C29_CorePageIsACandidate ==
    \A k \in 1..Len(cpPaths) :
        /\ 0 <= cpPaths[k].document_index
        /\ cpPaths[k].document_index < cpCands
        /\ cpPaths[k].notion_id = LeafId(cpPaths[k].document_index)

(***************************************************************************)
(* Claims about overlapping sync cycles (checked under SpecSch).           *)
(***************************************************************************)
\* The invocations of the sync callback in progress: the one awaited by the
\* loop's _execute_sync and those awaited by trigger_immediate_sync.
InFlight == schImm + (IF schLoop.pc = "sync" THEN 1 ELSE 0)

\* C30: at most one invocation of the sync callback is in progress at any
\* time, also when trigger_immediate_sync() is called during a scheduled run
\* or a scheduled run comes due during an immediate one.
C30_OneSyncAtATime == InFlight <= 1
====
